---- MODULE Spec2Model ----
(***************************************************************************)
(* A model of pkgbuild-rs (src/src/lib.rs): the parse_multi driver, the    *)
(* child I/O pump, the stream parser of the harness output and the lifter  *)
(* of the borrowed records into the owned model.                           *)
(*                                                                         *)
(* Text is modelled at word granularity: a byte slice is a sequence of     *)
(* words (strings), the separators ":", "/", ">", "<" and "=" being words  *)
(* of their own; a line of the child's stdout is one such sequence and the *)
(* stdout buffer is the sequence of its lines (the split at '\n').         *)
(***************************************************************************)
EXTENDS Integers, Sequences, FiniteSets, TLC

----------------------------------------------------------------------------
(* Bounds of the model *)

\* most paths handed to one parse_multi call
MaxPaths == 2

\* most architecture sub-frames of one recipe frame, those of its split
\* package included
MaxArches == 3

\* most sources of an architecture sub-frame
MaxSources == 2

\* most checksum lines of an architecture sub-frame, all families together
MaxSums == 3

\* what a pipe holds at most, in blocks
PipeCap == 2

\* the lines of input one run of the pump writes
MaxInput == 3

\* the blocks the child prints to stdout, and to stderr, for one line
MaxOut == 3

MaxErr == 2

\* the pieces of a dependency text
MaxDep == 4

\* the bytes of a version text handed to vercmp
MaxVer == 3

\* the lines of a parser output read line by line
MaxLines == 4

\* the blocks the scratch buffer of the single-thread pump holds, and so
\* the most one of its reads takes
PIPE_BUF == 2

----------------------------------------------------------------------------
(* Helpers on sequences *)

Range(s) == {s[i] : i \in 1..Len(s)}

RECURSIVE Concat(_)
Concat(ss) == IF ss = <<>> THEN <<>> ELSE Head(ss) \o Concat(Tail(ss))

\* sequences over S of length 0..n
SeqUpTo(S, n) == UNION {[1..k -> S] : k \in 0..n}

----------------------------------------------------------------------------
(* The borrowed intermediate graph, src/src/lib.rs:1263-1337 *)

PackageArchitectureParsingDefault ==
    [arch |-> <<>>, checkdepends |-> <<>>, depends |-> <<>>,
     optdepends |-> <<>>, provides |-> <<>>, conflicts |-> <<>>,
     replaces |-> <<>>]

PackageParsingDefault ==
    [pkgname |-> <<>>, pkgdesc |-> <<>>, url |-> <<>>, license |-> <<>>,
     groups |-> <<>>, backup |-> <<>>, options |-> <<>>, install |-> <<>>,
     changelog |-> <<>>, arches |-> <<>>]

PkgbuildArchitectureParsingDefault ==
    [arch |-> <<>>, sources |-> <<>>, cksums |-> <<>>, md5sums |-> <<>>,
     sha1sums |-> <<>>, sha224sums |-> <<>>, sha256sums |-> <<>>,
     sha384sums |-> <<>>, sha512sums |-> <<>>, b2sums |-> <<>>,
     depends |-> <<>>, makedepends |-> <<>>, checkdepends |-> <<>>,
     optdepends |-> <<>>, conflicts |-> <<>>, provides |-> <<>>,
     replaces |-> <<>>]

PkgbuildParsingDefault ==
    [pkgbase |-> <<>>, pkgs |-> <<>>, pkgver |-> <<>>, pkgrel |-> <<>>,
     epoch |-> <<>>, pkgdesc |-> <<>>, url |-> <<>>, license |-> <<>>,
     install |-> <<>>, changelog |-> <<>>, validgpgkeys |-> <<>>,
     noextract |-> <<>>, groups |-> <<>>, arches |-> <<>>,
     backups |-> <<>>, options |-> <<>>, pkgver_func |-> FALSE]

----------------------------------------------------------------------------
(* Errors, src/src/lib.rs:120-148.  Every error value has the same shape:  *)
(* kind, the offending line (ParserScriptIllegalOutput), the exit code     *)
(* (ChildBadReturn; NoCode when absent), the failed operation (IoError)    *)
(* and the counts and records of                                           *)
(* MismatchedResultCount.                                                  *)

NoCode == -1

Error(kind) ==
    [kind |-> kind, io |-> "", line |-> <<>>, code |-> NoCode,
     input |-> 0, output |-> 0, result |-> <<>>]

NoError == Error("none")

\* an std::io::Error, told apart by the operation that raised it
IoError(what) == [Error("IoError") EXCEPT !.io = what]

ParserScriptIllegalOutput(line) ==
    [Error("ParserScriptIllegalOutput") EXCEPT !.line = line]

BrokenPKGBUILDs == Error("BrokenPKGBUILDs")

\* a driver that reports every bad exit as one opaque error, without the code
ChildBadReturn_opaque(code) == Error("ChildStdioIncomplete")

ChildBadReturn(code) == [Error("ChildBadReturn") EXCEPT !.code = code]

MismatchedResultCount(input, output, result) ==
    [Error("MismatchedResultCount") EXCEPT
        !.input = input, !.output = output, !.result = result]

\* Result<T>: Ok(value) or Err(error)
Ok(v) == [ok |-> TRUE, value |-> v, error |-> NoError]

Err(e) == [ok |-> FALSE, value |-> <<>>, error |-> e]

----------------------------------------------------------------------------
(* The stream parser, src/src/lib.rs:1339-1546 *)

\* key_value_from_slice_u8!: splitn(2, ':'), the key before the first colon
\* and the value after it (later colons included); no colon, no value
FirstColon(line) ==
    IF \E i \in 1..Len(line) : line[i] = ":"
    THEN CHOOSE i \in 1..Len(line) :
            line[i] = ":" /\ \A j \in 1..(i - 1) : line[j] # ":"
    ELSE 0

KeyOf(line) ==
    IF FirstColon(line) = 0 THEN line
    ELSE SubSeq(line, 1, FirstColon(line) - 1)

\* a value cut at the last colon instead of the first
ValueOf_last(line) ==
    IF FirstColon(line) = 0 THEN <<>>
    ELSE SubSeq(line,
                (CHOOSE i \in 1..Len(line) :
                    line[i] = ":" /\ \A j \in (i + 1)..Len(line) : line[j] # ":")
                + 1,
                Len(line))

ValueOf(line) ==
    IF FirstColon(line) = 0 THEN <<>>
    ELSE SubSeq(line, FirstColon(line) + 1, Len(line))

\* the keys each state accepts, with the field each one sets or appends to
PkgbuildPlainKeys ==
    [pkgbase |-> "pkgbase", pkgver |-> "pkgver", pkgrel |-> "pkgrel",
     epoch |-> "epoch", pkgdesc |-> "pkgdesc", url |-> "url",
     install |-> "install", changelog |-> "changelog"]

PkgbuildArrayKeys ==
    [license |-> "license", validgpgkeys |-> "validgpgkeys",
     noextract |-> "noextract", groups |-> "groups", backup |-> "backups",
     options |-> "options"]

PackagePlainKeys ==
    [pkgname |-> "pkgname", pkgdesc |-> "pkgdesc", url |-> "url",
     install |-> "install", changelog |-> "changelog"]

PackageArrayKeys ==
    [license |-> "license", groups |-> "groups", backup |-> "backup",
     options |-> "options"]

PackageArchArrayKeys ==
    [checkdepends |-> "checkdepends", depends |-> "depends",
     optdepends |-> "optdepends", provides |-> "provides",
     conflicts |-> "conflicts", replaces |-> "replaces"]

PkgbuildArchArrayKeys ==
    [source |-> "sources", cksums |-> "cksums", md5sums |-> "md5sums",
     sha1sums |-> "sha1sums", sha224sums |-> "sha224sums",
     sha256sums |-> "sha256sums", sha384sums |-> "sha384sums",
     sha512sums |-> "sha512sums", b2sums |-> "b2sums",
     depends |-> "depends", makedepends |-> "makedepends",
     checkdepends |-> "checkdepends", optdepends |-> "optdepends",
     conflicts |-> "conflicts", provides |-> "provides",
     replaces |-> "replaces"]

\* a key is one word naming an entry of the table
IsKey(key, table) == Len(key) = 1 /\ key[1] \in DOMAIN table

\* ParsingState: the kind, the records under construction (the ones the
\* kind does not carry stay at their defaults), the finished PkgbuildParsing
\* records, and the error that ended the parse
ParsingStateNone ==
    [kind |-> "None", pkgbuild |-> PkgbuildParsingDefault,
     package |-> PackageParsingDefault,
     pkgarch |-> PackageArchitectureParsingDefault,
     arch |-> PkgbuildArchitectureParsingDefault,
     pkgbuilds |-> <<>>, error |-> NoError]

\* an error that drops the line it was raised for
IllegalLine_default(st, line) ==
    [st EXCEPT !.error = ParserScriptIllegalOutput(<<>>)]

IllegalLine(st, line) ==
    [st EXCEPT !.error = ParserScriptIllegalOutput(line)]

\* one iteration of the loop over the lines of the output, for a state
\* without error: empty lines are skipped, frame tokens move between the
\* states, any other line is a key:value line of the current state
ParseNone(st, line) ==
    IF line = <<"PKGBUILD">>
    THEN [st EXCEPT !.kind = "Pkgbuild", !.pkgbuild = PkgbuildParsingDefault]
    ELSE IllegalLine(st, line)

ParsePkgbuild(st, line) ==
    LET key == KeyOf(line)
        value == ValueOf(line)
    IN  CASE line = <<"PACKAGE">> ->
                [st EXCEPT !.kind = "Package",
                           !.package = PackageParsingDefault]
          [] line = <<"ARCH">> ->
                [st EXCEPT !.kind = "PkgbuildArchSpecific",
                           !.arch = PkgbuildArchitectureParsingDefault]
          [] line = <<"END">> ->
                [st EXCEPT !.kind = "None",
                           !.pkgbuilds = Append(@, st.pkgbuild),
                           !.pkgbuild = PkgbuildParsingDefault]
          [] OTHER ->
                IF IsKey(key, PkgbuildPlainKeys)
                THEN [st EXCEPT !.pkgbuild[PkgbuildPlainKeys[key[1]]] = value]
                ELSE IF IsKey(key, PkgbuildArrayKeys)
                THEN [st EXCEPT !.pkgbuild[PkgbuildArrayKeys[key[1]]] =
                                    Append(@, value)]
                ELSE IF key = <<"pkgver_func">>
                THEN IF value = <<"y">>
                     THEN [st EXCEPT !.pkgbuild.pkgver_func = TRUE]
                     ELSE IF value = <<"n">>
                     THEN [st EXCEPT !.pkgbuild.pkgver_func = FALSE]
                     ELSE IllegalLine(st, line)
                ELSE IllegalLine(st, line)

ParsePackage(st, line) ==
    LET key == KeyOf(line)
        value == ValueOf(line)
    IN  CASE line = <<"PACKAGEARCH">> ->
                [st EXCEPT !.kind = "PackageArchSpecific",
                           !.pkgarch = PackageArchitectureParsingDefault]
          [] line = <<"END">> ->
                [st EXCEPT !.kind = "Pkgbuild",
                           !.pkgbuild.pkgs = Append(@, st.package),
                           !.package = PackageParsingDefault]
          [] OTHER ->
                IF IsKey(key, PackagePlainKeys)
                THEN [st EXCEPT !.package[PackagePlainKeys[key[1]]] = value]
                ELSE IF IsKey(key, PackageArrayKeys)
                THEN [st EXCEPT !.package[PackageArrayKeys[key[1]]] =
                                    Append(@, value)]
                ELSE IllegalLine(st, line)

ParsePackageArchSpecific(st, line) ==
    LET key == KeyOf(line)
        value == ValueOf(line)
    IN  CASE line = <<"END">> ->
                [st EXCEPT !.kind = "Package",
                           !.package.arches = Append(@, st.pkgarch),
                           !.pkgarch = PackageArchitectureParsingDefault]
          [] OTHER ->
                IF key = <<"arch">>
                THEN [st EXCEPT !.pkgarch.arch = value]
                ELSE IF IsKey(key, PackageArchArrayKeys)
                THEN [st EXCEPT !.pkgarch[PackageArchArrayKeys[key[1]]] =
                                    Append(@, value)]
                ELSE IllegalLine(st, line)

ParsePkgbuildArchSpecific(st, line) ==
    LET key == KeyOf(line)
        value == ValueOf(line)
    IN  CASE line = <<"END">> ->
                [st EXCEPT !.kind = "Pkgbuild",
                           !.pkgbuild.arches = Append(@, st.arch),
                           !.arch = PkgbuildArchitectureParsingDefault]
          [] OTHER ->
                IF key = <<"arch">>
                THEN [st EXCEPT !.arch.arch = value]
                ELSE IF IsKey(key, PkgbuildArchArrayKeys)
                THEN [st EXCEPT !.arch[PkgbuildArchArrayKeys[key[1]]] =
                                    Append(@, value)]
                ELSE IllegalLine(st, line)

ParseLine(st, line) ==
    IF line = <<>> THEN st
    ELSE CASE st.kind = "None" -> ParseNone(st, line)
           [] st.kind = "Pkgbuild" -> ParsePkgbuild(st, line)
           [] st.kind = "Package" -> ParsePackage(st, line)
           [] st.kind = "PackageArchSpecific" ->
                ParsePackageArchSpecific(st, line)
           [] st.kind = "PkgbuildArchSpecific" ->
                ParsePkgbuildArchSpecific(st, line)

\* the loop: it returns at the first illegal line
RECURSIVE ParseLines(_, _)
ParseLines(st, lines) ==
    IF lines = <<>> \/ st.error # NoError THEN st
    ELSE ParseLines(ParseLine(st, Head(lines)), Tail(lines))

\* a match on the last state that lets every state pass and returns the
\* records closed so far
ParseFinish_lenient(st) ==
    IF st.error # NoError THEN Err(st.error) ELSE Ok(st.pkgbuilds)

\* the match on the state left when the output is used up: None is clean,
\* an open Pkgbuild is closed, any other state is illegal output
ParseFinish(st) ==
    IF st.error # NoError THEN Err(st.error)
    ELSE CASE st.kind = "None" -> Ok(st.pkgbuilds)
           [] st.kind = "Pkgbuild" -> Ok(Append(st.pkgbuilds, st.pkgbuild))
           [] OTHER -> Err(ParserScriptIllegalOutput(<<>>))

\* PkgbuildsParsing::from_parser_output: Ok(entries) or Err
from_parser_output(output) == ParseFinish(ParseLines(ParsingStateNone, output))

----------------------------------------------------------------------------
(* The lifter, src/src/lib.rs:2849-3239 *)

None == <<>>

Some(v) == <<v>>

\* str::to_lowercase on one word: the upper-case spellings the model uses
ToLowerWord(w) ==
    CASE w = "Any" -> "any"
      [] w = "ANY" -> "any"
      [] w = "X86_64" -> "x86_64"
      [] w = "AArch64" -> "aarch64"
      [] OTHER -> w

to_lowercase(value) == [i \in 1..Len(value) |-> ToLowerWord(value[i])]

\* impl From<&str> for Architecture: the tag is lower-cased, then matched
Architecture(value) ==
    LET arch == to_lowercase(value)
    IN  CASE arch = <<"x86_64">> -> [variant |-> "X86_64", other |-> <<>>]
          [] arch = <<"aarch64">> -> [variant |-> "Aarch64", other |-> <<>>]
          [] arch = <<"armv7h">> -> [variant |-> "Armv7h", other |-> <<>>]
          [] arch = <<"riscv64">> -> [variant |-> "Riscv64", other |-> <<>>]
          [] OTHER -> [variant |-> "Other", other |-> arch]

\* BTreeMap<Architecture, T>: a function on its key set
EmptyMap == [k \in {} |-> 0]

\* BTreeMap::insert: the map afterwards, and whether the key was there
MapInsert(map, k, v) ==
    [map |-> [x \in (DOMAIN map) \cup {k} |-> IF x = k THEN v ELSE map[x]],
     old |-> k \in DOMAIN map]

MultiArchDefault(T) == [any |-> T, arches |-> EmptyMap]

\* impl TryFrom<&str> for Provide: > and < are refused, the rest is split
\* at the first =
FirstEq(value) ==
    IF \E i \in 1..Len(value) : value[i] = "="
    THEN CHOOSE i \in 1..Len(value) :
            value[i] = "=" /\ \A j \in 1..(i - 1) : value[j] # "="
    ELSE 0

Provide_try_from(value) ==
    IF ">" \in Range(value) \/ "<" \in Range(value)
    THEN Err(BrokenPKGBUILDs)
    ELSE IF FirstEq(value) # 0
    THEN Ok([name |-> SubSeq(value, 1, FirstEq(value) - 1),
             version |-> Some(SubSeq(value, FirstEq(value) + 1, Len(value)))])
    ELSE Ok([name |-> value, version |-> None])

\* vec_items_try_from_vec_items for Provide: the first failure is returned
vec_items_try_from_vec_items(items) ==
    IF \E i \in 1..Len(items) : ~Provide_try_from(items[i]).ok
    THEN Err(BrokenPKGBUILDs)
    ELSE Ok([i \in 1..Len(items) |-> Provide_try_from(items[i]).value])

\* impl TryFrom<&PackageArchitectureParsing> for PackageArchSpecific:
\* the record built once the provides are lifted
PackageArchSpecific_with(value, provides) ==
    IF ~provides.ok THEN Err(provides.error)
    ELSE Ok([checkdepends |-> value.checkdepends,
             depends |-> value.depends,
             optdepends |-> value.optdepends,
             provides |-> provides.value,
             conflicts |-> value.conflicts,
             replaces |-> value.replaces])

PackageArchSpecific_try_from(value) ==
    PackageArchSpecific_with(value,
        vec_items_try_from_vec_items(value.provides))

PackageArchSpecificDefault ==
    [checkdepends |-> <<>>, depends |-> <<>>, optdepends |-> <<>>,
     provides |-> <<>>, conflicts |-> <<>>, replaces |-> <<>>]

\* the checksum families of an architecture frame, with the field of
\* SourceWithChecksum each one fills
ChecksumFamilies ==
    [cksums |-> "cksum", md5sums |-> "md5sum", sha1sums |-> "sha1sum",
     sha224sums |-> "sha224sum", sha256sums |-> "sha256sum",
     sha384sums |-> "sha384sum", sha512sums |-> "sha512sum",
     b2sums |-> "b2sum"]

\* len_mismatch!: a non-empty family whose length differs from len
len_mismatch(value, sums, len) ==
    value[sums] # <<>> /\ Len(value[sums]) # len

\* the words standing for a decimal u32 and for a digest of the right
\* length in lower-case hex
WellFormedCksum == {"3456789012"}

WellFormedHex == {"d41d8cd9"}

\* SKIP is absent; a malformed value is absent too
cksum_from(cksum) ==
    IF cksum = <<"SKIP">> THEN None
    ELSE IF Len(cksum) = 1 /\ cksum[1] \in WellFormedCksum
    THEN Some(cksum[1]) ELSE None

hash_sum_from_hex(sum) ==
    IF sum = <<"SKIP">> THEN None
    ELSE IF Len(sum) = 1 /\ sum[1] \in WellFormedHex
    THEN Some(sum[1]) ELSE None

\* Vec::get(id) of one family, parsed; a family without entry id is absent
checksum_at(value, sums, id) ==
    IF id > Len(value[sums]) THEN None
    ELSE IF sums = "cksums" THEN cksum_from(value[sums][id])
    ELSE hash_sum_from_hex(value[sums][id])

\* the source definition is kept as written; the eight checksum fields
source_with_checksum(value, id) ==
    [source |-> value.sources[id],
     cksum |-> checksum_at(value, "cksums", id),
     md5sum |-> checksum_at(value, "md5sums", id),
     sha1sum |-> checksum_at(value, "sha1sums", id),
     sha224sum |-> checksum_at(value, "sha224sums", id),
     sha256sum |-> checksum_at(value, "sha256sums", id),
     sha384sum |-> checksum_at(value, "sha384sums", id),
     sha512sum |-> checksum_at(value, "sha512sums", id),
     b2sum |-> checksum_at(value, "b2sums", id)]

PkgbuildArchSpecificDefault ==
    [sources_with_checksums |-> <<>>, depends |-> <<>>,
     makedepends |-> <<>>, checkdepends |-> <<>>, optdepends |-> <<>>,
     conflicts |-> <<>>, provides |-> <<>>, replaces |-> <<>>]

\* the guard of the length check: it is made only for a non-empty source
\* list
sources_checked(value) == value.sources # <<>>

\* the length check over the eight families
sums_mismatch(value) ==
    /\ sources_checked(value)
    /\ \E sums \in DOMAIN ChecksumFamilies :
          len_mismatch(value, sums, Len(value.sources))

\* impl TryFrom<&PkgbuildArchitectureParsing> for PkgbuildArchSpecific:
\* the length check, the sources with their checksums, then the provides
PkgbuildArchSpecific_with(value, provides) ==
    IF sums_mismatch(value) THEN Err(BrokenPKGBUILDs)
    ELSE IF ~provides.ok THEN Err(provides.error)
    ELSE Ok([sources_with_checksums |->
                [id \in 1..Len(value.sources) |->
                    source_with_checksum(value, id)],
             depends |-> value.depends,
             makedepends |-> value.makedepends,
             checkdepends |-> value.checkdepends,
             optdepends |-> value.optdepends,
             conflicts |-> value.conflicts,
             provides |-> provides.value,
             replaces |-> value.replaces])

PkgbuildArchSpecific_try_from(value) ==
    PkgbuildArchSpecific_with(value,
        vec_items_try_from_vec_items(value.provides))

\* the test that sends a sub-frame to the any slot: the raw tag, as written
is_any(arch) == arch = <<"any">>

\* an insert that lets the later sub-frame replace the earlier one
multiarch_insert_replace(multiarch, ins) ==
    Ok([multiarch EXCEPT !.arches = ins.map])

\* multiarch.arches.insert(..): a key already present is an error
multiarch_insert(multiarch, ins) ==
    IF ins.old THEN Err(BrokenPKGBUILDs)
    ELSE Ok([multiarch EXCEPT !.arches = ins.map])

\* one iteration of the loop over the architecture sub-frames: the lifted
\* sub-frame goes to the any slot or is inserted under its key
multiarch_put(multiarch, arch, arch_value) ==
    IF ~arch_value.ok THEN Err(arch_value.error)
    ELSE IF is_any(arch)
    THEN Ok([multiarch EXCEPT !.any = arch_value.value])
    ELSE multiarch_insert(multiarch,
            MapInsert(multiarch.arches, Architecture(arch), arch_value.value))

\* the loop of a split package; it returns at the first error
RECURSIVE Package_multiarch(_, _)
Package_multiarch(arches, multiarch) ==
    IF arches = <<>> \/ ~multiarch.ok THEN multiarch
    ELSE Package_multiarch(Tail(arches),
            multiarch_put(multiarch.value, Head(arches).arch,
                          PackageArchSpecific_try_from(Head(arches))))

\* impl TryFrom<&PackageParsing> for Package
Package_with(value, multiarch) ==
    IF ~multiarch.ok THEN Err(multiarch.error)
    ELSE Ok([pkgname |-> value.pkgname, pkgdesc |-> value.pkgdesc,
             url |-> value.url, license |-> value.license,
             groups |-> value.groups, backup |-> value.backup,
             options |-> value.options, install |-> value.install,
             changelog |-> value.changelog,
             multiarch |-> multiarch.value])

Package_try_from(value) ==
    Package_with(value,
        Package_multiarch(value.arches,
            Ok(MultiArchDefault(PackageArchSpecificDefault))))

\* a collecting loop that puts each lifted record before the earlier ones
push_lifted_front(lifted, entry) ==
    IF ~entry.ok THEN Err(entry.error)
    ELSE Ok(<<entry.value>> \o lifted)

\* a collecting loop that drops a record that fails to lift and goes on
push_lifted_skip(lifted, entry) ==
    IF ~entry.ok THEN Ok(lifted)
    ELSE Ok(Append(lifted, entry.value))

\* pkgs.push(pkg.try_into()?): the error of a failed lift is returned
push_lifted(lifted, entry) ==
    IF ~entry.ok THEN Err(entry.error)
    ELSE Ok(Append(lifted, entry.value))

\* the loop over the split packages of a recipe
RECURSIVE Packages_try_from(_, _)
Packages_try_from(pkgs, lifted) ==
    IF pkgs = <<>> \/ ~lifted.ok THEN lifted
    ELSE Packages_try_from(Tail(pkgs),
            push_lifted(lifted.value, Package_try_from(Head(pkgs))))

\* the loop over the architecture sub-frames of a recipe
RECURSIVE Pkgbuild_multiarch(_, _)
Pkgbuild_multiarch(arches, multiarch) ==
    IF arches = <<>> \/ ~multiarch.ok THEN multiarch
    ELSE Pkgbuild_multiarch(Tail(arches),
            multiarch_put(multiarch.value, Head(arches).arch,
                          PkgbuildArchSpecific_try_from(Head(arches))))

\* PlainVersion::from_raw
PlainVersion_from_raw(epoch, pkgver, pkgrel) ==
    [epoch |-> epoch, pkgver |-> pkgver, pkgrel |-> pkgrel]

\* impl TryFrom<&PkgbuildParsing> for Pkgbuild: the split packages first,
\* then the architecture sub-frames of the recipe
Pkgbuild_with(value, pkgs, multiarch) ==
    IF ~pkgs.ok THEN Err(pkgs.error)
    ELSE IF ~multiarch.ok THEN Err(multiarch.error)
    ELSE Ok([pkgbase |-> value.pkgbase,
             pkgs |-> pkgs.value,
             version |-> PlainVersion_from_raw(
                            value.epoch, value.pkgver, value.pkgrel),
             pkgdesc |-> value.pkgdesc, url |-> value.url,
             license |-> value.license, install |-> value.install,
             changelog |-> value.changelog,
             validpgpkeys |-> value.validgpgkeys,
             noextract |-> value.noextract, groups |-> value.groups,
             multiarch |-> multiarch.value,
             backup |-> value.backups, options |-> value.options,
             pkgver_func |-> value.pkgver_func])

Pkgbuild_try_from(value) ==
    Pkgbuild_with(value,
        Packages_try_from(value.pkgs, Ok(<<>>)),
        Pkgbuild_multiarch(value.arches,
            Ok(MultiArchDefault(PkgbuildArchSpecificDefault))))

\* impl TryFrom<&PkgbuildsParsing> for Pkgbuilds: entry by entry, in order;
\* the first failure is returned and the entries lifted before it dropped
RECURSIVE Pkgbuilds_try_from(_, _)
Pkgbuilds_try_from(entries, lifted) ==
    IF entries = <<>> \/ ~lifted.ok THEN lifted
    ELSE Pkgbuilds_try_from(Tail(entries),
            push_lifted(lifted.value, Pkgbuild_try_from(Head(entries))))

----------------------------------------------------------------------------
(* The child: the harness run by the shell.  It reads its stdin line by    *)
(* line and writes, for each path, what the plan of the run says; the      *)
(* frames are the ones the generated script prints.                        *)

\* the paths a caller hands in: a bare file name and a path with a slash
PathSet == {<<"a">>, <<"d", "/", "b">>}

\* what the harness may print for one path
ChunkKinds ==
    {"frame", "unclosed", "nothing", "two", "garbage", "provide",
     "duparch", "sums"}

Frame(id) == << <<"PKGBUILD">>, <<"pkgbase", ":", id>>, <<"END">> >>

ChunkText(kind, id) ==
    CASE kind = "frame" -> Frame(id)
      [] kind = "unclosed" -> << <<"PKGBUILD">>, <<"pkgbase", ":", id>> >>
      [] kind = "nothing" -> <<>>
      [] kind = "two" -> Frame(id) \o Frame(id)
      [] kind = "garbage" -> << <<"garbage">> >>
      [] kind = "provide" ->
            << <<"PKGBUILD">>, <<"pkgbase", ":", id>>, <<"ARCH">>,
               <<"arch", ":", "any">>, <<"provides", ":", "p", ">", "1">>,
               <<"END">>, <<"END">> >>
      [] kind = "duparch" ->
            << <<"PKGBUILD">>, <<"pkgbase", ":", id>>, <<"ARCH">>,
               <<"arch", ":", "x86_64">>, <<"END">>, <<"ARCH">>,
               <<"arch", ":", "X86_64">>, <<"END">>, <<"END">> >>
      [] kind = "sums" ->
            << <<"PKGBUILD">>, <<"pkgbase", ":", id>>, <<"ARCH">>,
               <<"arch", ":", "any">>, <<"source", ":", "s1">>,
               <<"source", ":", "s2">>, <<"md5sums", ":", "SKIP">>,
               <<"END">>, <<"END">> >>

\* the recipe a stdin line names: the last word of the line
PathId(line) == line[Len(line)]

\* the child's whole stdout for the lines it was given
ChildOutput(lines, plan) ==
    Concat([i \in 1..Len(lines) |-> ChunkText(plan[i], PathId(lines[i]))])

\* the argument of the exit call that ends the child; the harness leaves
\* with -1, -2 or -3 on the three violations it detects
ChildExitArgs == {0, 1, 2, 0 - 1, 0 - 2, 0 - 3}

\* the exit code the parent reads: the low eight bits of the argument
ExitCodeBits == 8

RECURSIVE Pow2(_)
Pow2(n) == IF n = 0 THEN 1 ELSE 2 * Pow2(n - 1)

\* ExitStatus: how the child ended, by exit(arg) or by a signal
NoStatus == [known |-> FALSE, exited |-> FALSE, arg |-> 0]

Exited(arg) == [known |-> TRUE, exited |-> TRUE, arg |-> arg]

Signaled == [known |-> TRUE, exited |-> FALSE, arg |-> 0]

ChildStatuses == {Exited(a) : a \in ChildExitArgs} \cup {Signaled}

\* ExitStatus::code: the low eight bits of the exit argument, none for a
\* child ended by a signal
status_code(st) ==
    IF st.exited THEN st.arg % Pow2(ExitCodeBits) ELSE NoCode

\* ExitStatus::success
status_success(st) == st.exited /\ status_code(st) = 0

----------------------------------------------------------------------------
(* State *)

VARIABLES
    \* Parser::parse_multi, one call
    pc,           \* where the call stands
    policy,       \* the pump the crate was built with: "thread", "nothread"
    paths,        \* the paths the caller iterates over
    input,        \* the bytes for the child's stdin, line by line
    count,        \* the number of paths counted
    plan,         \* what the child prints for each stdin line
    child,        \* the child process: none, running, killed, reaped
    ops,          \* the steps taken on the child so far, in order
    out_and_err,  \* what ChildIOs::work returned
    status,       \* the exit status child.wait() returned
    parsing,      \* what from_parser_output returned
    result,       \* what parse_multi returned
    \* one recipe frame read by the stream parser, then lifted
    scan,         \* the ParsingState of from_parser_output
    frame,        \* the PkgbuildParsing handed to the lifter
    lifting,      \* what Pkgbuild::try_from returned
    \* ChildIOs::work over the three pipes
    total,        \* input.len()
    written,      \* the part of the input the stdin pipe has taken
    pipes,        \* what each pipe holds: stdin, stdout, stderr
    handles,      \* the parent's ends still open: stdin, stdout, stderr
    peer,         \* the child: what it does, what it still has to print
    stdin_writer, \* the thread writing the input
    stderr_reader, \* the thread reading stderr
    work_pc,      \* where the caller's thread stands in work
    finish,       \* stdout_finish and stderr_finish
    last_error,   \* the error work is going to return
    stdout,       \* the vector the bytes read from stdout are kept in
    stderr,       \* the vector the bytes read from stderr are kept in
    buffer,       \* the scratch buffer of the single-thread pump
    \* one call of a pure function of the library
    subject,      \* the value the function is called with
    outcome       \* what the function returned, <<>> before the call

drvVars ==
    <<pc, policy, paths, input, count, plan, child, ops, out_and_err,
      status, parsing, result>>

liftVars == <<scan, frame, lifting>>

pumpVars ==
    <<total, written, pipes, handles, peer, stdin_writer, stderr_reader,
      work_pc, finish, last_error, stdout, stderr, buffer>>

callVars == <<subject, outcome>>

vars == <<drvVars, liftVars, pumpVars, callVars>>

Pending == Err(Error("pending"))

----------------------------------------------------------------------------
(* Parser::parse_multi, src/src/lib.rs:1111-1186 *)

\* the line written for one path: ./ is put before a path without slash
InputLine(path) == IF "/" \in Range(path) THEN path ELSE <<"./">> \o path

\* the loop over the paths; an empty iterator returns at once
BuildInput(ps) == [i \in 1..Len(ps) |-> InputLine(ps[i])]

\* a driver without the early return for an empty iterator
ParseMulti_unchecked(ps) ==
    /\ pc = "idle"
    /\ paths' = ps
    /\ input' = BuildInput(ps)
    /\ count' = Len(ps)
    /\ result' = result
    /\ pc' = "spawn"
    /\ UNCHANGED <<policy, plan, child, ops, out_and_err, status, parsing>>
    /\ UNCHANGED <<liftVars, pumpVars, callVars>>

ParseMulti(ps) ==
    /\ pc = "idle"
    /\ paths' = ps
    /\ input' = BuildInput(ps)
    /\ count' = Len(ps)
    /\ IF Len(ps) = 0
       THEN /\ result' = Ok(<<>>)
            /\ pc' = "done"
       ELSE /\ result' = result
            /\ pc' = "spawn"
    /\ UNCHANGED <<policy, plan, child, ops, out_and_err, status, parsing>>
    /\ UNCHANGED <<liftVars, pumpVars, callVars>>

Return(r) ==
    /\ result' = r
    /\ pc' = "done"

\* get_child_taken: Command::spawn, then the three handles are taken
GetChildTaken ==
    /\ pc = "spawn"
    /\ \/ /\ Return(Err(IoError("spawn")))
          /\ UNCHANGED <<child, ops, plan>>
       \/ /\ child' = "running"
          /\ ops' = Append(ops, "spawn")
          /\ \E pl \in [1..Len(input) -> ChunkKinds] : plan' = pl
          /\ \/ Return(Err(Error("ChildStdioIncomplete")))
             \/ /\ pc' = "work"
                /\ result' = result
    /\ UNCHANGED <<policy, paths, input, count, out_and_err, status, parsing>>
    /\ UNCHANGED <<liftVars, pumpVars, callVars>>

\* the errors ChildIOs::work can return
PumpErrors ==
    {IoError("stdin"), IoError("stdout"), IoError("stderr")}
    \cup (IF policy = "thread" THEN {Error("ThreadUnjoinable")}
          ELSE {Error("NixErrno")})

\* child_ios.work(input): the two buffers, or the error of the pump
Work ==
    /\ pc = "work"
    /\ ops' = Append(ops, "pump")
    /\ \/ /\ out_and_err' = Ok([out |-> ChildOutput(input, plan),
                                err |-> <<>>])
          /\ pc' = "wait"
       \/ /\ \E e \in PumpErrors : out_and_err' = Err(e)
          /\ pc' = "kill"
    /\ UNCHANGED <<policy, paths, input, count, plan, child, status, parsing,
                   result>>
    /\ UNCHANGED <<liftVars, pumpVars, callVars>>

\* the Ok arm: child.wait(), then the exit status is looked at
WaitChild ==
    /\ pc = "wait"
    /\ \/ /\ ops' = Append(ops, "wait_failed")
          /\ Return(Err(IoError("wait")))
          /\ UNCHANGED <<child, status>>
       \/ /\ ops' = Append(ops, "wait")
          /\ child' = "reaped"
          /\ \E st \in ChildStatuses : status' = st
          /\ IF status_success(status')
             THEN /\ pc' = "parse"
                  /\ result' = result
             ELSE Return(Err(ChildBadReturn(status_code(status'))))
    /\ UNCHANGED <<policy, paths, input, count, plan, out_and_err, parsing>>
    /\ UNCHANGED <<liftVars, pumpVars, callVars>>

\* the Err arm: child.kill(); its failure is returned at once
KillChild ==
    /\ pc = "kill"
    /\ \/ /\ ops' = Append(ops, "kill_failed")
          /\ Return(Err(IoError("kill")))
          /\ child' = child
       \/ /\ ops' = Append(ops, "kill")
          /\ child' = "killed"
          /\ pc' = "wait_killed"
          /\ result' = result
    /\ UNCHANGED <<policy, paths, input, count, plan, out_and_err, status,
                   parsing>>
    /\ UNCHANGED <<liftVars, pumpVars, callVars>>

\* the Err arm: child.wait() of the killed child, then the pump's error
WaitKilled ==
    /\ pc = "wait_killed"
    /\ \/ /\ ops' = Append(ops, "wait_failed")
          /\ Return(Err(IoError("wait")))
          /\ UNCHANGED <<child, status>>
       \/ /\ ops' = Append(ops, "wait")
          /\ child' = "reaped"
          /\ \E st \in ChildStatuses : status' = st
          /\ Return(Err(out_and_err.error))
    /\ UNCHANGED <<policy, paths, input, count, plan, out_and_err, parsing>>
    /\ UNCHANGED <<liftVars, pumpVars, callVars>>

\* a count check that lets a batch with too few records through
CheckCount_atmost(n, entries) ==
    IF Len(entries) > n
    THEN Err(MismatchedResultCount(n, Len(entries), entries))
    ELSE Ok(entries)

\* the count check on the lifted records
CheckCount(n, entries) ==
    IF Len(entries) # n
    THEN Err(MismatchedResultCount(n, Len(entries), entries))
    ELSE Ok(entries)

\* PkgbuildsParsing::from_parser_output(&out)?
ParseOutput ==
    /\ pc = "parse"
    /\ ops' = Append(ops, "parse")
    /\ parsing' = from_parser_output(out_and_err.value.out)
    /\ IF parsing'.ok
       THEN /\ pc' = "lift"
            /\ result' = result
       ELSE Return(Err(parsing'.error))
    /\ UNCHANGED <<policy, paths, input, count, plan, child, out_and_err,
                   status>>
    /\ UNCHANGED <<liftVars, pumpVars, callVars>>

\* Pkgbuilds::try_from(..)?, then the count check
CheckLifted(n, pkgbuilds) ==
    IF ~pkgbuilds.ok THEN Err(pkgbuilds.error)
    ELSE CheckCount(n, pkgbuilds.value)

LiftAndCheck(n, entries) ==
    CheckLifted(n, Pkgbuilds_try_from(entries, Ok(<<>>)))

LiftOutput ==
    /\ pc = "lift"
    /\ ops' = Append(ops, "lift")
    /\ Return(LiftAndCheck(count, parsing.value))
    /\ UNCHANGED <<policy, paths, input, count, plan, child, out_and_err,
                   status, parsing>>
    /\ UNCHANGED <<liftVars, pumpVars, callVars>>

DrvInit ==
    /\ pc = "idle"
    /\ policy \in {"thread", "nothread"}
    /\ paths = <<>>
    /\ input = <<>>
    /\ count = 0
    /\ plan = <<>>
    /\ child = "none"
    /\ ops = <<>>
    /\ out_and_err = Pending
    /\ status = NoStatus
    /\ parsing = Pending
    /\ result = Pending

\* no frame is being read
LiftInit ==
    /\ scan = ParsingStateNone
    /\ frame = PkgbuildParsingDefault
    /\ lifting = Pending

\* no pump is running
PumpInit ==
    /\ total = 0
    /\ written = 0
    /\ pipes = [stdin |-> 0, stdout |-> <<>>, stderr |-> <<>>]
    /\ handles = {}
    /\ peer = [at |-> "none", out |-> 0, err |-> 0,
               printed |-> [stdout |-> 0, stderr |-> 0], status |-> NoStatus]
    /\ stdin_writer = "none"
    /\ stderr_reader = "none"
    /\ work_pc = "idle"
    /\ finish = {}
    /\ last_error = NoError
    /\ stdout = <<>>
    /\ stderr = <<>>
    /\ buffer = <<>>

\* no function is being called
CallInit ==
    /\ subject = [fn |-> "none"]
    /\ outcome = <<>>

Init == DrvInit /\ LiftInit /\ PumpInit /\ CallInit

Next ==
    \/ \E ps \in SeqUpTo(PathSet, MaxPaths) : ParseMulti(ps)
    \/ GetChildTaken
    \/ Work
    \/ WaitChild
    \/ KillChild
    \/ WaitKilled
    \/ ParseOutput
    \/ LiftOutput

Spec == Init /\ [][Next]_vars

----------------------------------------------------------------------------
(* One recipe frame.  The stream parser reads it piece by piece, as the    *)
(* harness prints it; the closed frame is handed to the lifter.            *)

\* the architecture tags a recipe may carry
ArchTags == {"any", "Any", "x86_64", "X86_64"}

\* the value printed for an entry of a checksum family
SumValue(sums) == IF sums = "cksums" THEN "3456789012" ELSE "d41d8cd9"

\* the architecture sub-frames read so far, of the recipe and of its
\* split package
ArchCount(st) ==
    Len(st.pkgbuild.arches) + Len(st.package.arches)
    + (IF st.pkgbuild.pkgs = <<>> THEN 0
       ELSE Len(st.pkgbuild.pkgs[1].arches))

\* the checksum entries of the sub-frame being read
SumCount(arch) ==
    Len(arch.cksums) + Len(arch.md5sums) + Len(arch.sha1sums)
    + Len(arch.sha224sums) + Len(arch.sha256sums) + Len(arch.sha384sums)
    + Len(arch.sha512sums) + Len(arch.b2sums)

\* no sub-frame read so far carries a source or a checksum: a recipe with
\* sources is read with that one sub-frame only
Plain(st) ==
    \A i \in 1..Len(st.pkgbuild.arches) :
        /\ st.pkgbuild.arches[i].sources = <<>>
        /\ SumCount(st.pkgbuild.arches[i]) = 0

\* the lines go through the loop of from_parser_output
Feed(lines) ==
    /\ lifting = Pending
    /\ scan' = ParseLines(scan, lines)
    /\ UNCHANGED <<frame, lifting, drvVars, pumpVars, callVars>>

FeedPkgbuild ==
    /\ scan.kind = "None"
    /\ scan.pkgbuilds = <<>>
    /\ Feed(<< <<"PKGBUILD">>, <<"pkgbase", ":", "a">> >>)

FeedArch(tag) ==
    /\ scan.kind = "Pkgbuild"
    /\ Plain(scan)
    /\ ArchCount(scan) < MaxArches
    /\ Feed(<< <<"ARCH">>, <<"arch", ":", tag>> >>)

FeedSource ==
    /\ scan.kind = "PkgbuildArchSpecific"
    /\ scan.pkgbuild.arches = <<>>
    /\ scan.pkgbuild.pkgs = <<>>
    /\ Len(scan.arch.sources) < MaxSources
    /\ Feed(<< <<"source", ":", "s">> >>)

FeedSum(sums) ==
    /\ scan.kind = "PkgbuildArchSpecific"
    /\ scan.pkgbuild.arches = <<>>
    /\ scan.pkgbuild.pkgs = <<>>
    /\ SumCount(scan.arch) < MaxSums
    /\ Feed(<< <<sums, ":", SumValue(sums)>> >>)

FeedPackage ==
    /\ scan.kind = "Pkgbuild"
    /\ Plain(scan)
    /\ scan.pkgbuild.pkgs = <<>>
    /\ Feed(<< <<"PACKAGE">>, <<"pkgname", ":", "n">> >>)

FeedPackageArch(tag) ==
    /\ scan.kind = "Package"
    /\ ArchCount(scan) < MaxArches
    /\ Feed(<< <<"PACKAGEARCH">>, <<"arch", ":", tag>> >>)

\* END of a sub-frame or of the split package
FeedEnd ==
    /\ scan.kind \in {"PkgbuildArchSpecific", "PackageArchSpecific", "Package"}
    /\ Feed(<< <<"END">> >>)

\* END of the recipe; the closed frame is lifted
LiftFrame ==
    /\ lifting = Pending
    /\ scan.kind = "Pkgbuild"
    /\ scan' = ParseLine(scan, <<"END">>)
    /\ frame' = scan'.pkgbuilds[1]
    /\ lifting' = Pkgbuild_try_from(frame')
    /\ UNCHANGED <<drvVars, pumpVars, callVars>>

LiftNext ==
    \/ FeedPkgbuild
    \/ \E tag \in ArchTags : FeedArch(tag)
    \/ FeedSource
    \/ \E sums \in DOMAIN ChecksumFamilies : FeedSum(sums)
    \/ FeedPackage
    \/ \E tag \in ArchTags : FeedPackageArch(tag)
    \/ FeedEnd
    \/ LiftFrame

SpecLift == Init /\ [][LiftNext]_vars

----------------------------------------------------------------------------
(* ChildIOs::work over the three pipes, src/src/lib.rs:870-1033.  A pipe   *)
(* holds at most PipeCap blocks.  The child reads stdin line by line,      *)
(* prints any amount to stdout and stderr for each line, and exits when    *)
(* stdin is at its end.                                                    *)

Handles == {"stdin", "stdout", "stderr"}

\* the k-th block the child prints to one of its two output streams
Block(h, k) == <<h, k>>

\* what vec![0; PIPE_BUF] holds before the first read
ZeroBlock == <<"", 0>>

\* the arguments of the exit calls by which the harness gives up before
\* stdin is at its end
ChildAbortArgs == {1, 0 - 2}

\* the child reads one line and decides what it prints for it
ChildRead ==
    /\ peer.at = "read"
    /\ pipes.stdin > 0
    /\ pipes' = [pipes EXCEPT !.stdin = @ - 1]
    /\ \E o \in 0..MaxOut, e \in 0..MaxErr :
          peer' = [peer EXCEPT !.at = IF o + e = 0 THEN "read" ELSE "write",
                               !.out = o, !.err = e]
    /\ UNCHANGED <<total, written, handles, stdin_writer, stderr_reader,
                   work_pc, finish, last_error>>
    /\ UNCHANGED <<stdout, stderr, buffer>>
    /\ UNCHANGED <<drvVars, liftVars, callVars>>

\* the child after a block is gone: back to reading once nothing is left
Printed(out, err) ==
    [at |-> IF out + err = 0 THEN "read" ELSE "write",
     out |-> out, err |-> err]

\* the child writes one block; a write to a pipe whose other end is closed
\* ends the child (SIGPIPE)
ChildWrite(h) ==
    /\ peer.at = "write"
    /\ IF h = "stdout" THEN peer.out > 0 ELSE peer.err > 0
    /\ IF h \in handles
       THEN /\ Len(pipes[h]) < PipeCap
            /\ pipes' = [pipes EXCEPT
                            ![h] = Append(@, Block(h, peer.printed[h] + 1))]
            /\ peer' =
                  [peer EXCEPT
                      !.at = IF h = "stdout"
                             THEN Printed(peer.out - 1, peer.err).at
                             ELSE Printed(peer.out, peer.err - 1).at,
                      !.out = IF h = "stdout" THEN @ - 1 ELSE @,
                      !.err = IF h = "stderr" THEN @ - 1 ELSE @,
                      !.printed[h] = @ + 1]
       ELSE /\ pipes' = pipes
            /\ peer' = [peer EXCEPT !.at = "exited", !.out = 0, !.err = 0,
                                    !.status = Signaled]
    /\ UNCHANGED <<total, written, handles, stdin_writer, stderr_reader,
                   work_pc, finish, last_error>>
    /\ UNCHANGED <<stdout, stderr, buffer>>
    /\ UNCHANGED <<drvVars, liftVars, callVars>>

\* stdin is at its end: the child exits
ChildExit ==
    /\ peer.at = "read"
    /\ pipes.stdin = 0
    /\ "stdin" \notin handles
    /\ peer' = [peer EXCEPT !.at = "exited", !.out = 0, !.err = 0,
                            !.status = Exited(0)]
    /\ UNCHANGED <<total, written, pipes, handles, stdin_writer,
                   stderr_reader, work_pc, finish, last_error>>
    /\ UNCHANGED <<stdout, stderr, buffer>>
    /\ UNCHANGED <<drvVars, liftVars, callVars>>

\* the harness gives up with a non-zero exit status, whatever is left of
\* its stdin and of what it had to print
ChildAbort ==
    /\ peer.at \in {"read", "write"}
    /\ \E arg \in ChildAbortArgs :
          peer' = [peer EXCEPT !.at = "exited", !.out = 0, !.err = 0,
                               !.status = Exited(arg)]
    /\ UNCHANGED <<total, written, pipes, handles, stdin_writer,
                   stderr_reader, work_pc, finish, last_error>>
    /\ UNCHANGED <<stdout, stderr, buffer>>
    /\ UNCHANGED <<drvVars, liftVars, callVars>>

ChildStep ==
    \/ ChildRead
    \/ \E h \in {"stdout", "stderr"} : ChildWrite(h)
    \/ ChildExit

\* work is entered with the three handles of a running child; the threaded
\* pump spawns its two threads, the other one sets the handles non-blocking
\* and allocates its scratch buffer
PumpStart(n) ==
    /\ work_pc = "idle"
    /\ total' = n
    /\ peer' = [at |-> "read", out |-> 0, err |-> 0,
                printed |-> [stdout |-> 0, stderr |-> 0],
                status |-> NoStatus]
    /\ stdout' = <<>>
    /\ stderr' = <<>>
    /\ IF policy = "thread"
       THEN /\ handles' = Handles
            /\ stdin_writer' = "running"
            /\ stderr_reader' = "running"
            /\ work_pc' = "stdout"
            /\ last_error' = last_error
            /\ buffer' = <<>>
       ELSE /\ UNCHANGED <<stdin_writer, stderr_reader>>
            /\ \/ /\ handles' = Handles
                  /\ work_pc' = "stdin"
                  /\ last_error' = last_error
                  /\ buffer' = [i \in 1..PIPE_BUF |-> ZeroBlock]
               \/ /\ handles' = {}
                  /\ work_pc' = "returned"
                  /\ last_error' = Error("NixErrno")
                  /\ buffer' = <<>>
    /\ UNCHANGED <<written, pipes, finish>>
    /\ UNCHANGED <<drvVars, liftVars, callVars>>

\* the thread stdin_writer: write_all blocks while the pipe is full, and
\* fails once the child is gone; when the closure ends, with the input
\* written or with an error, stdin is dropped
WriterStep ==
    /\ stdin_writer = "running"
    /\ \/ /\ peer.at # "exited"
          /\ pipes.stdin < PipeCap
          /\ pipes' = [pipes EXCEPT !.stdin = @ + 1]
          /\ written' = written + 1
          /\ IF written' >= total
             THEN /\ stdin_writer' = "ok"
                  /\ handles' = handles \ {"stdin"}
             ELSE UNCHANGED <<stdin_writer, handles>>
       \/ /\ peer.at = "exited"
          /\ stdin_writer' = "err"
          /\ handles' = handles \ {"stdin"}
          /\ UNCHANGED <<pipes, written>>
    /\ UNCHANGED <<total, peer, stderr_reader, work_pc, finish, last_error>>
    /\ UNCHANGED <<stdout, stderr, buffer>>
    /\ UNCHANGED <<drvVars, liftVars, callVars>>

\* a write of the thread fails with an I/O error
WriterFail ==
    /\ stdin_writer = "running"
    /\ stdin_writer' = "err"
    /\ handles' = handles \ {"stdin"}
    /\ UNCHANGED <<total, written, pipes, peer, stderr_reader, work_pc,
                   finish, last_error>>
    /\ UNCHANGED <<stdout, stderr, buffer>>
    /\ UNCHANGED <<drvVars, liftVars, callVars>>

\* the thread panics: the closure unwinds and stdin is dropped
WriterPanic ==
    /\ stdin_writer = "running"
    /\ stdin_writer' = "panicked"
    /\ handles' = handles \ {"stdin"}
    /\ UNCHANGED <<total, written, pipes, peer, stderr_reader, work_pc,
                   finish, last_error>>
    /\ UNCHANGED <<stdout, stderr, buffer>>
    /\ UNCHANGED <<drvVars, liftVars, callVars>>

\* the thread stderr_reader: read_to_end takes what the pipe holds, or a
\* part of it, into its vector, blocks while the pipe is empty and the
\* child lives, and ends at EOF; stderr is dropped when the closure ends
ReaderStep ==
    /\ stderr_reader = "running"
    /\ \/ /\ pipes.stderr # <<>>
          /\ \E n \in 1..Len(pipes.stderr) :
                /\ stderr' = stderr \o SubSeq(pipes.stderr, 1, n)
                /\ pipes' = [pipes EXCEPT
                                !.stderr = SubSeq(@, n + 1, Len(@))]
          /\ UNCHANGED <<stderr_reader, handles>>
       \/ /\ pipes.stderr = <<>>
          /\ peer.at = "exited"
          /\ stderr_reader' = "ok"
          /\ handles' = handles \ {"stderr"}
          /\ UNCHANGED <<pipes, stderr>>
    /\ UNCHANGED <<total, written, peer, stdin_writer, work_pc, finish,
                   last_error>>
    /\ UNCHANGED <<stdout, buffer>>
    /\ UNCHANGED <<drvVars, liftVars, callVars>>

\* a read of the thread fails with an I/O error
ReaderFail ==
    /\ stderr_reader = "running"
    /\ stderr_reader' = "err"
    /\ handles' = handles \ {"stderr"}
    /\ UNCHANGED <<total, written, pipes, peer, stdin_writer, work_pc,
                   finish, last_error>>
    /\ UNCHANGED <<stdout, stderr, buffer>>
    /\ UNCHANGED <<drvVars, liftVars, callVars>>

\* the thread panics: the closure unwinds and stderr is dropped
ReaderPanic ==
    /\ stderr_reader = "running"
    /\ stderr_reader' = "panicked"
    /\ handles' = handles \ {"stderr"}
    /\ UNCHANGED <<total, written, pipes, peer, stdin_writer, work_pc,
                   finish, last_error>>
    /\ UNCHANGED <<stdout, stderr, buffer>>
    /\ UNCHANGED <<drvVars, liftVars, callVars>>

\* the caller's thread: self.stdout.read_to_end(&mut stdout)
ReadStdout ==
    /\ work_pc = "stdout"
    /\ \/ /\ pipes.stdout # <<>>
          /\ \E n \in 1..Len(pipes.stdout) :
                /\ stdout' = stdout \o SubSeq(pipes.stdout, 1, n)
                /\ pipes' = [pipes EXCEPT
                                !.stdout = SubSeq(@, n + 1, Len(@))]
          /\ UNCHANGED <<work_pc, last_error>>
       \/ /\ pipes.stdout = <<>>
          /\ peer.at = "exited"
          /\ work_pc' = "join_stdin"
          /\ UNCHANGED <<pipes, last_error, stdout>>
    /\ UNCHANGED <<total, written, handles, peer, stdin_writer,
                   stderr_reader, finish>>
    /\ UNCHANGED <<stderr, buffer>>
    /\ UNCHANGED <<drvVars, liftVars, callVars>>

\* read_to_end fails: the error is kept in last_error, stdout stays open,
\* and the caller's thread goes on to join the two threads
ReadStdoutFail ==
    /\ work_pc = "stdout"
    /\ last_error' = IoError("stdout")
    /\ work_pc' = "join_stdin"
    /\ UNCHANGED <<total, written, pipes, handles, peer, stdin_writer,
                   stderr_reader, finish>>
    /\ UNCHANGED <<stdout, stderr, buffer>>
    /\ UNCHANGED <<drvVars, liftVars, callVars>>

\* the match on the result of a join: the error of the thread's closure or
\* ThreadUnjoinable for a thread that panicked replaces last_error
joined(thread, what, error) ==
    CASE thread = "err" -> IoError(what)
      [] thread = "panicked" -> Error("ThreadUnjoinable")
      [] OTHER -> error

\* stdin_writer.join(): it waits for the thread to end
JoinWriter ==
    /\ work_pc = "join_stdin"
    /\ stdin_writer \in {"ok", "err", "panicked"}
    /\ last_error' = joined(stdin_writer, "stdin", last_error)
    /\ work_pc' = "join_stderr"
    /\ UNCHANGED <<total, written, pipes, handles, peer, stdin_writer,
                   stderr_reader, finish>>
    /\ UNCHANGED <<stdout, stderr, buffer>>
    /\ UNCHANGED <<drvVars, liftVars, callVars>>

\* stderr_reader.join(), then the return: the vector of the thread, or an
\* empty one when the thread failed; stdout is dropped with self
JoinReader ==
    /\ work_pc = "join_stderr"
    /\ stderr_reader \in {"ok", "err", "panicked"}
    /\ last_error' = joined(stderr_reader, "stderr", last_error)
    /\ stderr' = IF stderr_reader = "ok" THEN stderr ELSE <<>>
    /\ work_pc' = "returned"
    /\ handles' = {}
    /\ UNCHANGED <<total, written, pipes, peer, stdin_writer, stderr_reader,
                   finish>>
    /\ UNCHANGED <<stdout, buffer>>
    /\ UNCHANGED <<drvVars, liftVars, callVars>>

\* return Err(e.into()) of the single-thread pump: self is dropped
ReturnErr(e) ==
    /\ last_error' = e
    /\ work_pc' = "returned"
    /\ handles' = {}

\* a write that takes a full pipe for a failure
WriteStdin_strict ==
    /\ work_pc = "stdin"
    /\ \/ /\ peer.at # "exited"
          /\ pipes.stdin < PipeCap
          /\ pipes' = [pipes EXCEPT !.stdin = @ + 1]
          /\ written' = written + 1
          /\ IF written' >= total
             THEN /\ handles' = handles \ {"stdin"}
                  /\ work_pc' = "stdout2"
             ELSE /\ handles' = handles
                  /\ work_pc' = "stdout1"
          /\ last_error' = last_error
       \/ /\ peer.at = "exited" \/ pipes.stdin = PipeCap
          /\ ReturnErr(IoError("stdin"))
          /\ UNCHANGED <<pipes, written>>
    /\ UNCHANGED <<total, peer, stdin_writer, stderr_reader, finish>>
    /\ UNCHANGED <<stdout, stderr, buffer>>
    /\ UNCHANGED <<drvVars, liftVars, callVars>>

\* the single-thread pump, first loop: one non-blocking write of stdin.
\* The pipe takes the block, or it is full (EAGAIN), or the child is gone
\* (EPIPE, returned as an error)
WriteStdin ==
    /\ work_pc = "stdin"
    /\ \/ /\ peer.at # "exited"
          /\ pipes.stdin < PipeCap
          /\ pipes' = [pipes EXCEPT !.stdin = @ + 1]
          /\ written' = written + 1
          /\ IF written' >= total
             THEN /\ handles' = handles \ {"stdin"}
                  /\ work_pc' = "stdout2"
             ELSE /\ handles' = handles
                  /\ work_pc' = "stdout1"
          /\ last_error' = last_error
       \/ /\ peer.at # "exited"
          /\ pipes.stdin = PipeCap
          /\ work_pc' = "stdout1"
          /\ UNCHANGED <<pipes, written, handles, last_error>>
       \/ /\ peer.at = "exited"
          /\ ReturnErr(IoError("stdin"))
          /\ UNCHANGED <<pipes, written>>
    /\ UNCHANGED <<total, peer, stdin_writer, stderr_reader, finish>>
    /\ UNCHANGED <<stdout, stderr, buffer>>
    /\ UNCHANGED <<drvVars, liftVars, callVars>>

\* the write fails with an error other than EAGAIN
WriteStdinFail ==
    /\ work_pc = "stdin"
    /\ ReturnErr(IoError("stdin"))
    /\ UNCHANGED <<total, written, pipes, peer, stdin_writer, stderr_reader,
                   finish>>
    /\ UNCHANGED <<stdout, stderr, buffer>>
    /\ UNCHANGED <<drvVars, liftVars, callVars>>

\* where the single-thread pump goes after a read, in either loop
AfterRead(at, done) ==
    CASE at = "stdout1" -> "stderr1"
      [] at = "stderr1" -> "stdin"
      [] at = "stdout2" -> "stderr2"
      [] at = "stderr2" ->
            IF done = {"stdout", "stderr"} THEN "returned" ELSE "stdout2"

\* the handles left when the single-thread pump moves on: the second loop
\* ends with both streams finished, and the handles are dropped
AfterReadHandles(at, done) ==
    IF AfterRead(at, done) = "returned" THEN {} ELSE handles

\* handle.read(&mut buffer[..]): the bytes read lie at the start of the
\* scratch buffer, what the buffer held behind them stays
read(scratch, bytes) ==
    bytes \o SubSeq(scratch, Len(bytes) + 1, Len(scratch))

\* an extension by the whole scratch buffer
extend_from_slice_whole(vec, scratch, read_this) == vec \o scratch

\* vec.extend_from_slice(&buffer[0..read_this])
extend_from_slice(vec, scratch, read_this) ==
    vec \o SubSeq(scratch, 1, read_this)

\* the single-thread pump: one non-blocking read of stdout or stderr, left
\* out once the stream has finished.  A read takes what the pipe holds, or
\* a part of it, and at most what the scratch buffer holds
ReadHandle(at, h) ==
    /\ work_pc = at
    /\ \/ /\ h \in finish
          /\ work_pc' = AfterRead(at, finish)
          /\ handles' = AfterReadHandles(at, finish)
          /\ UNCHANGED <<pipes, finish, last_error, stdout, stderr, buffer>>
       \/ /\ h \notin finish
          /\ pipes[h] # <<>>
          /\ \E read_this \in 1..Len(pipes[h]) :
                /\ read_this <= PIPE_BUF
                /\ buffer' = read(buffer, SubSeq(pipes[h], 1, read_this))
                /\ pipes' = [pipes EXCEPT
                                ![h] = SubSeq(@, read_this + 1, Len(@))]
                /\ IF h = "stdout"
                   THEN /\ stdout' =
                              extend_from_slice(stdout, buffer', read_this)
                        /\ stderr' = stderr
                   ELSE /\ stderr' =
                              extend_from_slice(stderr, buffer', read_this)
                        /\ stdout' = stdout
          /\ work_pc' = AfterRead(at, finish)
          /\ handles' = AfterReadHandles(at, finish)
          /\ UNCHANGED <<finish, last_error>>
       \/ /\ h \notin finish
          /\ pipes[h] = <<>>
          /\ finish' = IF peer.at = "exited" THEN finish \cup {h} ELSE finish
          /\ work_pc' = AfterRead(at, finish')
          /\ handles' = AfterReadHandles(at, finish')
          /\ UNCHANGED <<pipes, last_error, stdout, stderr, buffer>>
    /\ UNCHANGED <<total, written, peer, stdin_writer, stderr_reader>>
    /\ UNCHANGED <<drvVars, liftVars, callVars>>

\* the read fails with an error other than EAGAIN
ReadHandleFail(at, h) ==
    /\ work_pc = at
    /\ h \notin finish
    /\ ReturnErr(IoError(h))
    /\ UNCHANGED <<total, written, pipes, peer, stdin_writer, stderr_reader,
                   finish>>
    /\ UNCHANGED <<stdout, stderr, buffer>>
    /\ UNCHANGED <<drvVars, liftVars, callVars>>

\* the steps of the caller's thread under either policy
MainStep ==
    \/ ReadStdout
    \/ JoinWriter
    \/ JoinReader
    \/ WriteStdin
    \/ ReadHandle("stdout1", "stdout")
    \/ ReadHandle("stderr1", "stderr")
    \/ ReadHandle("stdout2", "stdout")
    \/ ReadHandle("stderr2", "stderr")

\* the I/O errors a transfer may run into, and the panics of the threads
FailStep ==
    \/ WriterFail
    \/ ReaderFail
    \/ WriterPanic
    \/ ReaderPanic
    \/ ReadStdoutFail
    \/ WriteStdinFail
    \/ ReadHandleFail("stdout1", "stdout")
    \/ ReadHandleFail("stderr1", "stderr")
    \/ ReadHandleFail("stdout2", "stdout")
    \/ ReadHandleFail("stderr2", "stderr")

PumpNext ==
    \/ \E n \in 1..MaxInput : PumpStart(n)
    \/ ChildStep
    \/ ChildAbort
    \/ WriterStep
    \/ ReaderStep
    \/ MainStep
    \/ FailStep

\* every thread and the child take the steps they can take; an I/O error,
\* a panic or an early exit of the child may happen or not
SpecPump ==
    /\ Init
    /\ [][PumpNext]_vars
    /\ WF_vars(ChildStep)
    /\ WF_vars(WriterStep)
    /\ WF_vars(ReaderStep)
    /\ WF_vars(MainStep)

----------------------------------------------------------------------------
(* parse_multi around the pump, src/src/lib.rs:1130-1166: the call stands  *)
(* at child_ios.work(input) with a child just spawned; the pump runs step  *)
(* by step against the child, no transfer fails unless the child is gone,  *)
(* and child.wait() returns the status the child ended with.               *)

\* child_ios.work(input) is entered
WorkEnter ==
    /\ pc = "work"
    /\ PumpStart(Len(input))

\* child_ios.work(input) has returned: the two buffers or the error
WorkLeave ==
    /\ pc = "work"
    /\ work_pc = "returned"
    /\ ops' = Append(ops, "pump")
    /\ IF last_error = NoError
       THEN /\ out_and_err' = Ok([out |-> stdout, err |-> stderr])
            /\ pc' = "wait"
       ELSE /\ out_and_err' = Err(last_error)
            /\ pc' = "kill"
    /\ UNCHANGED <<policy, paths, input, count, plan, child, status, parsing,
                   result>>
    /\ UNCHANGED <<liftVars, pumpVars, callVars>>

\* the status child.wait() returns: the one the child ended with, or that
\* of the signal sent by child.kill()
ExitStatus == IF peer.at = "exited" THEN peer.status ELSE Signaled

\* the Ok arm: child.wait() of a child that has ended
WaitExited ==
    /\ WaitChild
    /\ child' = "reaped" => status' = ExitStatus

\* the Err arm: child.wait() of the killed child
WaitKilledExited ==
    /\ WaitKilled
    /\ child' = "reaped" => status' = ExitStatus

\* the call stands at child_ios.work: the input is built, the child runs
RunInit ==
    /\ \E n \in 1..MaxInput :
          /\ paths = [i \in 1..n |-> <<"a">>]
          /\ input = BuildInput(paths)
          /\ count = n
          /\ plan = [i \in 1..n |-> "frame"]
    /\ pc = "work"
    /\ policy \in {"thread", "nothread"}
    /\ child = "running"
    /\ ops = <<"spawn">>
    /\ out_and_err = Pending
    /\ status = NoStatus
    /\ parsing = Pending
    /\ result = Pending
    /\ LiftInit /\ PumpInit /\ CallInit

RunNext ==
    \/ WorkEnter
    \/ ChildStep
    \/ ChildAbort
    \/ WriterStep
    \/ ReaderStep
    \/ MainStep
    \/ WorkLeave
    \/ WaitExited
    \/ KillChild
    \/ WaitKilledExited

SpecRun == RunInit /\ [][RunNext]_vars

----------------------------------------------------------------------------
(* Properties of Parser::parse_multi, checked under Spec *)

\* C1: for a call with n >= 1 paths whose child exited successfully and
\* whose stdout parsed and lifted without error, the call returns exactly
\* the lifted records when there are n of them, and otherwise the mismatch
\* error with input = n, output = the number of lifted records and result =
\* those records; a successful return always has exactly n records.
C1_CountContract ==
    /\ (pc = "done" /\ result.ok) => Len(result.value) = count
    /\ (pc = "done" /\ count >= 1 /\ status_success(status) /\ parsing.ok) =>
          LET lifted == Pkgbuilds_try_from(parsing.value, Ok(<<>>))
          IN  lifted.ok =>
                IF Len(lifted.value) = count
                THEN result.ok /\ result.value = lifted.value
                ELSE /\ ~result.ok
                     /\ result.error.kind = "MismatchedResultCount"
                     /\ result.error.input = count
                     /\ result.error.output = Len(lifted.value)
                     /\ result.error.result = lifted.value
                     /\ Len(result.error.result) = result.error.output

\* a call with two paths that ended in the mismatch error with one record
C1_Witness ==
    /\ pc = "done"
    /\ count = 2
    /\ result.error.kind = "MismatchedResultCount"
    /\ result.error.output = 1
    /\ Len(result.error.result) = 1

\* C2: the stdin lines are the caller's paths in iteration order, and the
\* records a call hands back (as its value, or inside the mismatch error)
\* are those of the top-level frames of the stream in stream order; so for
\* a child that printed one frame per line, record i names path i.
C2_StreamOrder ==
    (pc = "done" /\ "lift" \in Range(ops)) =>
        LET records == IF result.ok THEN result.value
                       ELSE result.error.result
            frames == Concat([i \in 1..Len(input) |->
                        CASE plan[i] = "nothing" -> <<>>
                          [] plan[i] = "garbage" -> <<>>
                          [] plan[i] = "two" ->
                               <<PathId(input[i]), PathId(input[i])>>
                          [] OTHER -> <<PathId(input[i])>>])
        IN  /\ Len(input) = Len(paths)
            /\ \A i \in 1..Len(paths) : PathId(input[i]) = PathId(paths[i])
            /\ (result.ok \/ result.error.kind = "MismatchedResultCount") =>
                  /\ Len(records) = Len(frames)
                  /\ \A i \in 1..Len(records) :
                        records[i].pkgbase = <<frames[i]>>
            /\ (result.ok /\ \A i \in 1..Len(plan) : plan[i] = "frame") =>
                  \A i \in 1..Len(paths) :
                        result.value[i].pkgbase = <<PathId(paths[i])>>

\* a successful call with two different paths, one frame for each
C2_Witness ==
    /\ pc = "done"
    /\ result.ok
    /\ Len(paths) = 2
    /\ paths[1] # paths[2]
    /\ plan = <<"frame", "frame">>
    /\ result.value[1].pkgbase # result.value[2].pkgbase

\* C3: a call with an empty sequence of paths returns the empty result at
\* once and takes no step on a child: no spawn, pump, kill or wait.
C3_EmptyInput ==
    (pc # "idle" /\ paths = <<>>) =>
        /\ pc = "done"
        /\ result = Ok(<<>>)
        /\ child = "none"
        /\ ops = <<>>

\* the call with no path has returned
C3_Witness ==
    /\ pc = "done"
    /\ paths = <<>>
    /\ result.ok
    /\ result.value = <<>>
    /\ ops = <<>>

\* C5: when the pump returned without error and the reaped child did not
\* exit with 0, the call returns the child-bad-return error carrying the
\* exit code; the codes of exit -1, -2 and -3 differ from each other and
\* from the code of every other bad exit; stdout is not parsed and no
\* record is returned.
C5_BadReturn ==
    (pc = "done" /\ out_and_err.ok /\ status.known
        /\ ~status_success(status)) =>
        /\ ~result.ok
        /\ result.error.kind = "ChildBadReturn"
        /\ result.error.code = status_code(status)
        /\ \A other \in ChildStatuses :
              (~status_success(other) /\ other # status
                 /\ (status.arg \in {0 - 1, 0 - 2, 0 - 3}
                     \/ other.arg \in {0 - 1, 0 - 2, 0 - 3})) =>
                 ChildBadReturn(status_code(other)) # result.error
        /\ "parse" \notin Range(ops)
        /\ parsing = Pending
        /\ result.value = <<>>
        /\ result.error.result = <<>>

\* the child printed a whole frame and left with exit -2
C5_Witness ==
    /\ pc = "done"
    /\ out_and_err.ok
    /\ out_and_err.value.out # <<>>
    /\ status = Exited(0 - 2)
    /\ result.error.kind = "ChildBadReturn"
    /\ result.error.code = 254

\* C6: when the pump returned an error e the call kills the child, then
\* reaps it, and only then returns e itself, with no record.
C6_KillThenWait ==
    (pc = "done" /\ "pump" \in Range(ops) /\ ~out_and_err.ok) =>
        /\ Len(ops) >= 2
        /\ ops[Len(ops) - 1] = "kill"
        /\ ops[Len(ops)] = "wait"
        /\ child = "reaped"
        /\ result = Err(out_and_err.error)

----------------------------------------------------------------------------
(* Properties of the lifter, checked under SpecLift *)

\* C8: lifting an architecture sub-frame succeeds only if every non-empty
\* checksum family (cksums, md5sums, sha1sums, sha224sums, sha256sums,
\* sha384sums, sha512sums, b2sums) has as many entries as the source list;
\* a non-empty family of another length, also one next to an empty source
\* list, makes lifting fail with the broken-PKGBUILDs error.
C8_ChecksumLengths ==
    lifting # Pending =>
        \A i \in 1..Len(frame.arches) :
            (\E sums \in {"cksums", "md5sums", "sha1sums", "sha224sums",
                          "sha256sums", "sha384sums", "sha512sums",
                          "b2sums"} :
                /\ frame.arches[i][sums] # <<>>
                /\ Len(frame.arches[i][sums]) # Len(frame.arches[i].sources))
            => /\ PkgbuildArchSpecific_try_from(frame.arches[i])
                     = Err(BrokenPKGBUILDs)
               /\ lifting = Err(BrokenPKGBUILDs)

\* C9: in every lifted record, recipe or split package, no key of
\* multiarch.arches is the architecture named any (tags compared in lower
\* case), and a record whose sub-frames are all tagged any has an empty
\* arches map.
C9_NoAnyKey ==
    lifting.ok =>
        LET any_key == Architecture(<<"any">>)
            clean(parsed, record) ==
                /\ any_key \notin DOMAIN record.multiarch.arches
                /\ (\A i \in 1..Len(parsed.arches) :
                        to_lowercase(parsed.arches[i].arch) = <<"any">>)
                   => DOMAIN record.multiarch.arches = {}
        IN  /\ clean(frame, lifting.value)
            /\ \A p \in 1..Len(frame.pkgs) :
                  clean(frame.pkgs[p], lifting.value.pkgs[p])

\* C10: two architecture sub-frames of the recipe, or of the same split
\* package, whose tags are equal in lower case and are not any make
\* lifting fail with the broken-PKGBUILDs error.
C10_DuplicateKey ==
    lifting # Pending =>
        LET twice(arches) ==
                \E i, j \in 1..Len(arches) :
                    /\ i # j
                    /\ to_lowercase(arches[i].arch)
                          = to_lowercase(arches[j].arch)
                    /\ to_lowercase(arches[i].arch) # <<"any">>
        IN  (\/ twice(frame.arches)
             \/ \E p \in 1..Len(frame.pkgs) : twice(frame.pkgs[p].arches))
            => lifting = Err(BrokenPKGBUILDs)

\* a split package with the sub-frames x86_64 and X86_64: lifting failed
C10_Witness ==
    /\ lifting = Err(BrokenPKGBUILDs)
    /\ Len(frame.pkgs) = 1
    /\ Len(frame.pkgs[1].arches) = 2
    /\ frame.pkgs[1].arches[1].arch = <<"x86_64">>
    /\ frame.pkgs[1].arches[2].arch = <<"X86_64">>
    /\ frame.arches = <<>>

----------------------------------------------------------------------------
(* Property of ChildIOs::work, checked under SpecPump *)

\* C4: under either policy, for every input size and every output volume,
\* a pump that has started eventually returns, also after one of the three
\* transfers has failed; it never waits forever on one handle while the
\* child is blocked on another.
C4_PumpReturns == (work_pc # "idle") ~> (work_pc = "returned")

----------------------------------------------------------------------------
(* Sources.  A definition is text cut into pieces: each of the bytes      *)
(* : / + # = ? is a piece of its own, every other piece is a run of bytes *)
(* holding none of them (".git" and ".fossil" are such runs).             *)

\* str::find: where pat first starts in s, 0 when it does not occur
find(s, pat) ==
    LET hits == {i \in 1..(Len(s) + 1 - Len(pat)) :
                    SubSeq(s, i, i + Len(pat) - 1) = pat}
    IN  IF hits = {} THEN 0 ELSE CHOOSE i \in hits : \A j \in hits : i <= j

\* str::split_once: the text before and after the first pat
split_once(s, pat) ==
    LET cut(at) ==
            IF at = 0 THEN None
            ELSE Some(<<SubSeq(s, 1, at - 1),
                        SubSeq(s, at + Len(pat), Len(s))>>)
    IN  cut(find(s, pat))

\* str::rsplit_once with a one-byte pattern: split at the last pat
rsplit_once(s, pat) ==
    LET hits == {i \in 1..Len(s) : s[i] = pat}
        last == CHOOSE i \in hits : \A j \in hits : j <= i
    IN  IF hits = {} THEN None
        ELSE Some(<<SubSeq(s, 1, last - 1), SubSeq(s, last + 1, Len(s))>>)

\* split_url_fragment: prefix#key=value
split_url_fragment(url) ==
    LET key_value(prefix, kv) ==
            IF kv = None THEN None
            ELSE Some(<<prefix, kv[1][1], kv[1][2]>>)
        fragment(cut) ==
            IF cut = None THEN None
            ELSE key_value(cut[1][1], split_once(cut[1][2], <<"=">>))
    IN  fragment(split_once(url, <<"#">>))

\* split_url_fragment_no_query: as above, with what follows a ? dropped
\* from the fragment and, once key=value is found, from the prefix
split_url_fragment_no_query(url) ==
    LET before(text, query) == IF query = None THEN text ELSE query[1][1]
        key_value(prefix, kv) ==
            IF kv = None THEN None
            ELSE Some(<<before(prefix, split_once(prefix, <<"?">>)),
                        kv[1][1], kv[1][2]>>)
        fragment(cut) ==
            IF cut = None THEN None
            ELSE key_value(cut[1][1],
                           split_once(before(cut[1][2],
                                             split_once(cut[1][2], <<"?">>)),
                                      <<"=">>))
    IN  fragment(split_once(url, <<"#">>))

\* the fragment keys each version control protocol accepts, with the
\* variant each key selects
FragmentVariants ==
    [bzr |-> [revision |-> "Revision"],
     fossil |-> [branch |-> "Branch", commit |-> "Commit", tag |-> "Tag"],
     git |-> [branch |-> "Branch", commit |-> "Commit", tag |-> "Tag"],
     hg |-> [branch |-> "Branch", revision |-> "Revision", tag |-> "Tag"],
     svn |-> [revision |-> "Revision"]]

\* Fragment::from_url of the protocol proto: the url left, and the fragment
Fragment_from_url(proto, url) ==
    LET pick(split) ==
            IF split = None THEN <<url, None>>
            ELSE IF /\ Len(split[1][2]) = 1
                    /\ split[1][2][1] \in DOMAIN FragmentVariants[proto]
            THEN <<split[1][1],
                   Some([variant |-> FragmentVariants[proto][split[1][2][1]],
                         value |-> split[1][3]])>>
            ELSE <<split[1][1], None>>
    IN  pick(IF proto = "git" THEN split_url_fragment_no_query(url)
             ELSE split_url_fragment(url))

\* Fragment::get_type_and_value, written as Display does: key=value
Fragment_fmt(proto, fragment) ==
    LET keys == FragmentVariants[proto]
    IN  <<CHOOSE k \in DOMAIN keys : keys[k] = fragment.variant, "=">>
            \o fragment.value

\* SourceProtocol: variants without a fragment or a signed flag carry
\* None and FALSE
SourceProtocol(variant, fragment, signed) ==
    [variant |-> variant, fragment |-> fragment, signed |-> signed]

\* Source::get_url_name
get_url_name(url, protocol) ==
    LET file(cut) == IF cut = None THEN url ELSE cut[1][2]
        bzr(name, lp) == IF lp = None THEN name ELSE lp[1][2]
        named(name) ==
            CASE protocol.variant = "Bzr" ->
                    bzr(name, split_once(name, <<"lp", ":">>))
              [] protocol.variant = "Fossil" -> Append(name, ".fossil")
              [] protocol.variant = "Git" ->
                    IF name # <<>> /\ name[Len(name)] = ".git"
                    THEN SubSeq(name, 1, Len(name) - 1) ELSE name
              [] OTHER -> name
    IN  named(file(rsplit_once(url, "/")))

\* the match on the scheme in Source::from: the url left and the protocol
Source_protocol(proto, url) ==
    LET plain(variant) == <<url, SourceProtocol(variant, None, FALSE)>>
        vcs(variant, found) ==
            <<found[1], SourceProtocol(variant, found[2], FALSE)>>
        \* url = urln comes before url.contains("?signed")
        git(found) ==
            <<found[1],
              SourceProtocol("Git", found[2],
                             find(found[1], <<"?", "signed">>) # 0)>>
    IN  CASE proto = <<"file">> -> plain("File")
          [] proto = <<"ftp">> -> plain("Ftp")
          [] proto = <<"http">> -> plain("Http")
          [] proto = <<"https">> -> plain("Https")
          [] proto = <<"rsync">> -> plain("Rsync")
          [] proto = <<"bzr">> -> vcs("Bzr", Fragment_from_url("bzr", url))
          [] proto = <<"fossil">> ->
                vcs("Fossil", Fragment_from_url("fossil", url))
          [] proto = <<"git">> -> git(Fragment_from_url("git", url))
          [] proto = <<"hg">> -> vcs("Hg", Fragment_from_url("hg", url))
          [] proto = <<"svn">> -> vcs("Svn", Fragment_from_url("svn", url))
          [] OTHER -> plain("Unknown")

\* impl From<&str> for Source
Source_from(definition) ==
    LET made(name, found) ==
            [name |-> IF name = <<>> THEN get_url_name(found[1], found[2])
                      ELSE name,
             url |-> found[1],
             protocol |-> found[2]]
        \* url = &url[proto_actual.len() + 1..]
        based(url, proto, plus) ==
            Source_protocol(IF plus = None THEN proto ELSE plus[1][1],
                            IF plus = None THEN url
                            ELSE SubSeq(url, Len(plus[1][1]) + 2, Len(url)))
        found(url, scheme) ==
            IF scheme = None
            THEN <<url, SourceProtocol("Local", None, FALSE)>>
            ELSE based(url, scheme[1][1], split_once(scheme[1][1], <<"+">>))
        named(name, url) ==
            made(name, found(url, split_once(url, <<":", "/", "/">>)))
        aliased(alias) ==
            named(IF alias = None THEN <<>> ELSE alias[1][1],
                  IF alias = None THEN definition ELSE alias[1][2])
    IN  aliased(split_once(definition, <<":", ":">>))

\* SourceProtocol::get_proto_str
get_proto_str(protocol) ==
    CASE protocol.variant = "Unknown" -> "unknown"
      [] protocol.variant = "Local" -> "local"
      [] protocol.variant = "File" -> "file"
      [] protocol.variant = "Ftp" -> "ftp"
      [] protocol.variant = "Http" -> "http"
      [] protocol.variant = "Https" -> "https"
      [] protocol.variant = "Rsync" -> "rsync"
      [] protocol.variant = "Bzr" -> "bzr"
      [] protocol.variant = "Fossil" -> "fossil"
      [] protocol.variant = "Git" -> "git"
      [] protocol.variant = "Hg" -> "hg"
      [] protocol.variant = "Svn" -> "svn"

\* Source::get_pkgbuild_source
get_pkgbuild_source(source) ==
    LET proto(scheme) == IF scheme = None THEN <<>> ELSE scheme[1][1]
        raw(auto_name, proto_url, proto_actual) ==
            (IF auto_name # source.name
             THEN source.name \o <<":", ":">> ELSE <<>>)
            \o (IF source.protocol.variant \notin {"Unknown", "Local"}
                   /\ <<proto_actual>> # proto_url
                THEN <<proto_actual, "+">> ELSE <<>>)
            \o source.url
            \o (IF source.protocol.fragment # None
                THEN <<"#">> \o Fragment_fmt(proto_actual,
                                             source.protocol.fragment[1])
                ELSE <<>>)
            \o (IF source.protocol.signed THEN <<"?", "signed">> ELSE <<>>)
    IN  raw(get_url_name(source.url, source.protocol),
            proto(split_once(source.url, <<":", "/", "/">>)),
            get_proto_str(source.protocol))

----------------------------------------------------------------------------
(* Versions and dependencies.  A version or dependency text is cut into   *)
(* pieces as a source definition is: each of > < = : - is one piece       *)

\* impl From<&str> for PlainVersion
PlainVersion_from(value) ==
    LET colon == split_once(value, <<":">>)
        epoch == IF colon = None THEN <<>> ELSE colon[1][1]
        remaining == IF colon = None THEN value ELSE colon[1][2]
        dash == rsplit_once(remaining, "-")
    IN  [epoch |-> epoch,
         pkgver |-> IF dash = None THEN remaining ELSE dash[1][1],
         pkgrel |-> IF dash = None THEN <<>> ELSE dash[1][2]]

\* OrderedVersion next to the name it was split from
Dependency_versioned(cut, order) ==
    [name |-> cut[1][1],
     version |-> Some([order |-> order, plain |-> PlainVersion_from(cut[1][2])])]

\* a parse that cuts every text holding = at its first =, >= and <= not
\* looked for
Dependency_from_eq_first(value) ==
    IF split_once(value, <<"=">>) # None
    THEN Dependency_versioned(split_once(value, <<"=">>), "Equal")
    ELSE IF split_once(value, <<">">>) # None
    THEN Dependency_versioned(split_once(value, <<">">>), "Greater")
    ELSE IF split_once(value, <<"<">>) # None
    THEN Dependency_versioned(split_once(value, <<"<">>), "Less")
    ELSE [name |-> value, version |-> None]

\* impl From<&str> for Dependency
Dependency_from(value) ==
    IF split_once(value, <<"=">>) # None
    THEN IF split_once(value, <<">", "=">>) # None
         THEN Dependency_versioned(split_once(value, <<">", "=">>),
                                   "GreaterOrEqual")
         ELSE IF split_once(value, <<"<", "=">>) # None
         THEN Dependency_versioned(split_once(value, <<"<", "=">>),
                                   "LessOrEqual")
         ELSE Dependency_versioned(split_once(value, <<"=">>), "Equal")
    ELSE IF split_once(value, <<">">>) # None
    THEN Dependency_versioned(split_once(value, <<">">>), "Greater")
    ELSE IF split_once(value, <<"<">>) # None
    THEN Dependency_versioned(split_once(value, <<"<">>), "Less")
    ELSE [name |-> value, version |-> None]

\* the bytes a version text is made of here, with their ASCII codes
Bytes ==
    [c \in {".", "0", "1", "2", "9", "a", "b"} |->
        CASE c = "." -> 46 [] c = "0" -> 48 [] c = "1" -> 49
          [] c = "2" -> 50 [] c = "9" -> 57 [] c = "a" -> 97
          [] c = "b" -> 98]

\* char::is_ascii_digit
is_ascii_digit(c) == Bytes[c] >= 48 /\ Bytes[c] <= 57

\* the spliter closure of vercmp: !c.is_ascii_alphanumeric()
spliter(c) == ~(is_ascii_digit(c) \/ (Bytes[c] >= 97 /\ Bytes[c] <= 122))

\* str::split(spliter): the segments between the splitting bytes, empty
\* ones included
RECURSIVE str_split(_)
str_split(s) ==
    LET cuts == {i \in 1..Len(s) : spliter(s[i])}
        cut == CHOOSE i \in cuts : \A j \in cuts : i <= j
    IN  IF cuts = {} THEN <<s>>
        ELSE <<SubSeq(s, 1, cut - 1)>>
                 \o str_split(SubSeq(s, cut + 1, Len(s)))

\* the length of the run at the head of seg whose bytes are digits, or are
\* not, as is_digit says: the two for loops over char_indices
run_len(seg, is_digit) ==
    LET others == {i \in 1..Len(seg) : is_ascii_digit(seg[i]) # is_digit}
    IN  IF others = {} THEN Len(seg)
        ELSE (CHOOSE i \in others : \A j \in others : i <= j) - 1

\* str::trim_start_matches('0')
trim_start_zeros(s) ==
    LET kept == {i \in 1..Len(s) : s[i] # "0"}
    IN  IF kept = {} THEN <<>>
        ELSE SubSeq(s, CHOOSE i \in kept : \A j \in kept : i <= j, Len(s))

\* str::partial_cmp: byte by byte, a proper prefix is Less
str_cmp(s, t) ==
    LET differ == {i \in 1..Len(s) : i > Len(t) \/ s[i] # t[i]}
        at == CHOOSE i \in differ : \A j \in differ : i <= j
    IN  IF differ = {}
        THEN IF Len(s) = Len(t) THEN "Equal" ELSE "Less"
        ELSE IF at > Len(t) THEN "Greater"
        ELSE IF Bytes[s[at]] < Bytes[t[at]] THEN "Less" ELSE "Greater"

\* one round of the while loop of vercmp on the runs current1 and current2:
\* the order returned, or Equal when the loop goes on
vercmp_runs(is_digit, current1, current2) ==
    IF is_digit
    THEN IF current2 = <<>> THEN "Greater"
         ELSE IF Len(trim_start_zeros(current1))
                    # Len(trim_start_zeros(current2))
         THEN IF Len(trim_start_zeros(current1))
                    < Len(trim_start_zeros(current2))
              THEN "Less" ELSE "Greater"
         ELSE str_cmp(trim_start_zeros(current1),
                      trim_start_zeros(current2))
    ELSE IF current2 = <<>> THEN "Less"
         ELSE str_cmp(current1, current2)

\* the while loop of vercmp on one pair of segments and the two tests
\* behind it: the order returned, or Equal when the outer loop goes on.
\* The loop ends with seg1 empty only, so the None of line 1629 is never
\* returned
RECURSIVE vercmp_segment(_, _)
vercmp_segment(seg1, seg2) ==
    IF seg1 = <<>>
    THEN IF seg2 # <<>> THEN "Less" ELSE "Equal"
    ELSE LET is_digit == is_ascii_digit(seg1[1])
             n1 == run_len(seg1, is_digit)
             n2 == run_len(seg2, is_digit)
             order == vercmp_runs(is_digit, SubSeq(seg1, 1, n1),
                                  SubSeq(seg2, 1, n2))
         IN  IF order # "Equal" THEN order
             ELSE vercmp_segment(SubSeq(seg1, n1 + 1, Len(seg1)),
                                 SubSeq(seg2, n2 + 1, Len(seg2)))

\* the outer loop of vercmp from the i-th pair of segments on
RECURSIVE vercmp_loop(_, _, _)
vercmp_loop(segs1, segs2, i) ==
    IF i > Len(segs1)
    THEN IF i > Len(segs2) THEN "Equal" ELSE "Less"
    ELSE IF i > Len(segs2) THEN "Greater"
    ELSE IF vercmp_segment(segs1[i], segs2[i]) # "Equal"
    THEN vercmp_segment(segs1[i], segs2[i])
    ELSE vercmp_loop(segs1, segs2, i + 1)

\* pub fn vercmp
vercmp(ver1, ver2) == Some(vercmp_loop(str_split(ver1), str_split(ver2), 1))

\* an ordering that compares the pkgrels also when one of them is empty
PlainVersion_partial_cmp_pkgrel(self, other) ==
    LET epochs == vercmp(IF self.epoch = <<>> THEN <<"0">> ELSE self.epoch,
                         IF other.epoch = <<>> THEN <<"0">>
                         ELSE other.epoch)
        pkgvers == vercmp(self.pkgver, other.pkgver)
    IN  IF epochs[1] # "Equal" THEN epochs
        ELSE IF pkgvers[1] # "Equal" THEN pkgvers
        ELSE vercmp(self.pkgrel, other.pkgrel)

\* impl PartialOrd for PlainVersion
PlainVersion_partial_cmp(self, other) ==
    LET epochs == vercmp(IF self.epoch = <<>> THEN <<"0">> ELSE self.epoch,
                         IF other.epoch = <<>> THEN <<"0">>
                         ELSE other.epoch)
        pkgvers == vercmp(self.pkgver, other.pkgver)
    IN  IF epochs = None THEN None
        ELSE IF epochs[1] # "Equal" THEN epochs
        ELSE IF pkgvers = None THEN None
        ELSE IF pkgvers[1] # "Equal" THEN pkgvers
        ELSE IF self.pkgrel = <<>> \/ other.pkgrel = <<>>
        THEN Some("Equal")
        ELSE vercmp(self.pkgrel, other.pkgrel)

\* impl Ord for PlainVersion
PlainVersion_cmp(self, other) ==
    IF PlainVersion_partial_cmp(self, other) # None
    THEN PlainVersion_partial_cmp(self, other)[1]
    ELSE "Less"

----------------------------------------------------------------------------
(* The source blocks of the SRCINFO projection.  A line is its title and  *)
(* its content, a digest is its bytes                                     *)

\* writeln_indented_str: no line for an empty content
writeln_indented_str(title, content) ==
    IF content = <<>> THEN <<>>
    ELSE <<[title |-> title, content |-> content]>>

\* write_byte_iter: each byte as two lower-case hex digits
RECURSIVE write_byte_iter(_)
write_byte_iter(bytes) ==
    LET hex == <<"0", "1", "2", "3", "4", "5", "6", "7", "8", "9", "a",
                 "b", "c", "d", "e", "f">>
    IN  IF bytes = <<>> THEN <<>>
        ELSE <<hex[(Head(bytes) \div 16) + 1], hex[(Head(bytes) % 16) + 1]>>
                 \o write_byte_iter(Tail(bytes))

\* StatChecksum after the loop of write_sources_and_stat_sums and
\* ensure_least: the fields some source of the block has
StatChecksum(arch_specific) ==
    LET swc == arch_specific.sources_with_checksums
        fields == {ChecksumFamilies[sums] : sums \in DOMAIN ChecksumFamilies}
        seen == [field \in fields |->
                    \E i \in 1..Len(swc) : swc[i][field] # None]
    IN  IF \E field \in fields : seen[field] THEN seen
        ELSE [seen EXCEPT !.sha256sum = TRUE]

\* write_sources_and_stat_sums: the source lines of the block
RECURSIVE write_sources(_, _)
write_sources(arch_name, swc) ==
    IF swc = <<>> THEN <<>>
    ELSE writeln_indented_str(
             IF arch_name = <<>> THEN <<"source">>
             ELSE <<"source", "_">> \o arch_name,
             get_pkgbuild_source(Head(swc).source))
         \o write_sources(arch_name, Tail(swc))

\* write_checksums! for one field: a line per source if the field is set
\* in stat_checksums, with SKIP for a source that has none
RECURSIVE write_checksums(_, _, _, _)
write_checksums(stat_checksums, field, suffix, swc) ==
    IF ~stat_checksums[field] \/ swc = <<>> THEN <<>>
    ELSE <<[title |-> <<field, "s">> \o suffix,
            content |-> IF Head(swc)[field] # None
                        THEN write_byte_iter(Head(swc)[field][1])
                        ELSE <<"SKIP">>]>>
         \o write_checksums(stat_checksums, field, suffix, Tail(swc))

\* write_all_checksums: the seven fields the macro is called with, in order
write_all_checksums(stat_checksums, arch_name, arch_specific) ==
    LET suffix == IF arch_name = <<>> THEN <<>> ELSE <<"_">> \o arch_name
        swc == arch_specific.sources_with_checksums
    IN  write_checksums(stat_checksums, "md5sum", suffix, swc)
        \o write_checksums(stat_checksums, "sha1sum", suffix, swc)
        \o write_checksums(stat_checksums, "sha224sum", suffix, swc)
        \o write_checksums(stat_checksums, "sha256sum", suffix, swc)
        \o write_checksums(stat_checksums, "sha384sum", suffix, swc)
        \o write_checksums(stat_checksums, "sha512sum", suffix, swc)
        \o write_checksums(stat_checksums, "b2sum", suffix, swc)

----------------------------------------------------------------------------
(* Calls of the pure functions: the argument is drawn at the start, each  *)
(* action is one call                                                     *)

\* the source definitions tried: an optional alias, an optional scheme
\* with an optional transport behind +, a path, and what follows the path
SourceDefinitions ==
    LET Aliases == {<<>>, <<"n", ":", ":">>, <<"r", ":", ":">>}
        Names == {"file", "ftp", "http", "https", "rsync", "scp", "bzr",
                  "fossil", "git", "hg", "svn", "x"}
        Schemes == {<<>>} \cup {<<p, ":", "/", "/">> : p \in Names}
                     \cup {<<p, "+", "https", ":", "/", "/">> : p \in Names}
        Urls == {<<"h", "/", "r">>, <<"h", "/", "r", ".git">>,
                 <<"lp", ":", "r">>}
        Keys == {"branch", "commit", "tag", "revision", "k"}
        Fragments == {<<"#", k, "=", "v1">> : k \in Keys}
        Tails == {<<>>, <<"?", "signed">>} \cup Fragments
                   \cup {f \o <<"?", "signed">> : f \in Fragments}
                   \cup {<<"?", "signed">> \o f : f \in Fragments}
    IN  {a \o s \o u \o t :
            a \in Aliases, s \in Schemes, u \in Urls, t \in Tails}

\* Source::new(definition)
Source_new ==
    /\ subject.fn = "Source"
    /\ outcome = <<>>
    /\ outcome' = <<Source_from(subject.definition)>>
    /\ UNCHANGED <<subject, drvVars, liftVars, pumpVars>>

\* source.get_pkgbuild_source() on the source just made
Source_project ==
    /\ subject.fn = "Source"
    /\ Len(outcome) = 1
    /\ outcome' = Append(outcome, get_pkgbuild_source(outcome[1]))
    /\ UNCHANGED <<subject, drvVars, liftVars, pumpVars>>

\* Source::new on the projection
Source_again ==
    /\ subject.fn = "Source"
    /\ Len(outcome) = 2
    /\ outcome' = Append(outcome, Source_from(outcome[2]))
    /\ UNCHANGED <<subject, drvVars, liftVars, pumpVars>>

\* Dependency::from(text)
Dependency_new ==
    /\ subject.fn = "Dependency"
    /\ outcome = <<>>
    /\ outcome' = <<Dependency_from(subject.definition)>>
    /\ UNCHANGED <<subject, drvVars, liftVars, pumpVars>>

\* vercmp(ver1, ver2)
vercmp_call ==
    /\ subject.fn = "vercmp"
    /\ outcome = <<>>
    /\ outcome' = <<vercmp(subject.ver1, subject.ver2)>>
    /\ UNCHANGED <<subject, drvVars, liftVars, pumpVars>>

\* vercmp(ver2, ver1), the same two texts the other way round
vercmp_back ==
    /\ subject.fn = "vercmp"
    /\ Len(outcome) = 1
    /\ outcome' = Append(outcome, vercmp(subject.ver2, subject.ver1))
    /\ UNCHANGED <<subject, drvVars, liftVars, pumpVars>>

\* self.cmp(&other) on two PlainVersion values
PlainVersion_call ==
    /\ subject.fn = "PlainVersion"
    /\ outcome = <<>>
    /\ outcome' = <<PlainVersion_cmp(subject.self, subject.other)>>
    /\ UNCHANGED <<subject, drvVars, liftVars, pumpVars>>

\* other.cmp(&self)
PlainVersion_back ==
    /\ subject.fn = "PlainVersion"
    /\ Len(outcome) = 1
    /\ outcome' = Append(outcome,
                         PlainVersion_cmp(subject.other, subject.self))
    /\ UNCHANGED <<subject, drvVars, liftVars, pumpVars>>

\* the texts a field of a PlainVersion is drawn from
FieldTexts ==
    {<<>>, <<"0">>, <<"1">>, <<"2">>, <<"a">>,
     <<"1", ".", "0">>, <<"9", ".", "9">>, <<"9">>}

\* the sources with checksums a block is made of: one definition, and
\* each of cksum, md5sum, sha256sum and b2sum present or absent
BlockSources ==
    [source : {Source_from(<<"https", ":", "/", "/", "h", "/", "r">>)},
     cksum : {None, Some(7)},
     md5sum : {None, Some(<<212, 29>>)},
     sha1sum : {None}, sha224sum : {None},
     sha256sum : {None, Some(<<227, 176>>)},
     sha384sum : {None}, sha512sum : {None},
     b2sum : {None, Some(<<120, 106>>)}]

\* the source lines and the checksum lines of one block of the SRCINFO
\* projection
Srcinfo_block ==
    /\ subject.fn = "Srcinfo"
    /\ outcome = <<>>
    /\ outcome' =
          <<write_sources(subject.arch_name,
                          subject.block.sources_with_checksums)
            \o write_all_checksums(StatChecksum(subject.block),
                                   subject.arch_name, subject.block)>>
    /\ UNCHANGED <<subject, drvVars, liftVars, pumpVars>>

\* the lines the output handed to from_parser_output is made of: the five
\* frame tokens, key:value lines whose value holds a colon, and a line no
\* state accepts
OutputLines ==
    {<<"PKGBUILD">>, <<"PACKAGE">>, <<"PACKAGEARCH">>, <<"ARCH">>, <<"END">>,
     <<"url", ":", "h", ":", "x">>, <<"depends", ":", "d", ":", "e">>,
     <<"arch", ":", "any">>, <<"bogus">>}

\* one iteration of the loop of from_parser_output: the next line of the
\* output is read in the state the last one left; the loop has returned
\* once a line was illegal
Parse_line ==
    /\ subject.fn = "from_parser_output"
    /\ Len(outcome) < Len(subject.output)
    /\ outcome # <<>> => outcome[Len(outcome)].error = NoError
    /\ outcome' =
          Append(outcome,
                 ParseLine(IF outcome = <<>> THEN ParsingStateNone
                           ELSE outcome[Len(outcome)],
                           subject.output[Len(outcome) + 1]))
    /\ UNCHANGED <<subject, drvVars, liftVars, pumpVars>>

\* a.cmp(&b), b.cmp(&c) and a.cmp(&c) on three PlainVersion values
PlainVersion_chain ==
    /\ subject.fn = "Ord"
    /\ outcome = <<>>
    /\ outcome' = <<PlainVersion_cmp(subject.a, subject.b),
                    PlainVersion_cmp(subject.b, subject.c),
                    PlainVersion_cmp(subject.a, subject.c)>>
    /\ UNCHANGED <<subject, drvVars, liftVars, pumpVars>>

\* the outputs handed to from_parser_output as a whole: lines that lead
\* into one of the five states, one more line, and up to three END lines
OutputHeads ==
    { <<>>,
      << <<"PKGBUILD">>, <<"pkgbase", ":", "a">>, <<"END">> >>,
      << <<"PKGBUILD">> >>,
      << <<"PKGBUILD">>, <<"pkgdesc", ":", "d">>, <<"license", ":", "l">> >>,
      << <<"PKGBUILD">>, <<"PACKAGE">> >>,
      << <<"PKGBUILD">>, <<"PACKAGE">>, <<"pkgdesc", ":", "d">>,
         <<"license", ":", "l">> >>,
      << <<"PKGBUILD">>, <<"PACKAGE">>, <<"PACKAGEARCH">> >>,
      << <<"PKGBUILD">>, <<"PACKAGE">>, <<"PACKAGEARCH">>,
         <<"arch", ":", "any">>, <<"depends", ":", "d">> >>,
      << <<"PKGBUILD">>, <<"ARCH">> >>,
      << <<"PKGBUILD">>, <<"ARCH">>, <<"arch", ":", "any">>,
         <<"source", ":", "s">> >> }

\* the keys of the lines tried: every key the harness dumps
\* (src/build.rs:148-163), the spelling the parser has of validpgpkeys, and
\* a key nobody knows
OutputKeys ==
    {"pkgbase", "pkgver", "pkgrel", "epoch", "pkgdesc", "url", "install",
     "changelog", "license", "validpgpkeys", "validgpgkeys", "noextract",
     "groups", "backup", "options", "pkgver_func", "pkgname", "arch",
     "source", "cksums", "md5sums", "sha1sums", "sha224sums", "sha256sums",
     "sha384sums", "sha512sums", "b2sums", "depends", "makedepends",
     "checkdepends", "optdepends", "conflicts", "provides", "replaces",
     "bogus"}

OutputProbes ==
    {<<>>, <<"PKGBUILD">>, <<"PACKAGE">>, <<"PACKAGEARCH">>, <<"ARCH">>,
     <<"END">>, <<"pkgver_func", ":", "y">>, <<"pkgver_func", ":", "n">>}
        \cup {<<k>> : k \in OutputKeys}
        \cup {<<k, ":">> : k \in OutputKeys}
        \cup {<<k, ":", "v">> : k \in OutputKeys}

OutputTails == {<<>>, << <<"END">> >>, << <<"END">>, <<"END">> >>,
                << <<"END">>, <<"END">>, <<"END">> >>}

\* PkgbuildsParsing::from_parser_output(&output), the whole call
from_parser_output_call ==
    /\ subject.fn = "PkgbuildsParsing"
    /\ outcome = <<>>
    /\ outcome' = <<from_parser_output(subject.head \o <<subject.probe>>
                                        \o subject.tail)>>
    /\ UNCHANGED <<subject, drvVars, liftVars, pumpVars>>

CallSubjects ==
    [fn : {"Source"}, definition : SourceDefinitions]
        \cup [fn : {"Dependency"},
              definition : SeqUpTo({"bar", "2", ">", "<", "=", ":", "-"},
                                   MaxDep)]
        \cup [fn : {"vercmp"},
              ver1 : SeqUpTo({"0", "1", "a", "."}, MaxVer),
              ver2 : SeqUpTo({"0", "1", "a", "."}, MaxVer)]
        \cup [fn : {"PlainVersion"},
              self : [epoch : {<<>>, <<"1">>, <<"2">>},
                      pkgver : FieldTexts, pkgrel : FieldTexts],
              other : [epoch : {<<>>, <<"1">>, <<"2">>},
                       pkgver : FieldTexts, pkgrel : FieldTexts]]
        \cup [fn : {"Srcinfo"},
              arch_name : {<<>>, <<"x86_64">>},
              block : [sources_with_checksums :
                          SeqUpTo(BlockSources, MaxSources)]]
        \cup [fn : {"from_parser_output"},
              output : SeqUpTo(OutputLines, MaxLines)]
        \cup [fn : {"PkgbuildsParsing"}, head : OutputHeads,
              probe : OutputProbes, tail : OutputTails]
        \cup [fn : {"Ord"},
              a : [epoch : {<<>>, <<"1">>},
                   pkgver : {<<"1">>, <<"1", "a">>, <<"1", ".", "1">>},
                   pkgrel : {<<>>, <<"1">>, <<"2">>}],
              b : [epoch : {<<>>, <<"1">>},
                   pkgver : {<<"1">>, <<"1", "a">>, <<"1", ".", "1">>},
                   pkgrel : {<<>>, <<"1">>, <<"2">>}],
              c : [epoch : {<<>>, <<"1">>},
                   pkgver : {<<"1">>, <<"1", "a">>, <<"1", ".", "1">>},
                   pkgrel : {<<>>, <<"1">>, <<"2">>}]]

CallStart ==
    /\ DrvInit /\ LiftInit /\ PumpInit
    /\ subject \in CallSubjects
    /\ outcome = <<>>

CallNext ==
    \/ Source_new
    \/ Source_project
    \/ Source_again
    \/ Dependency_new
    \/ vercmp_call
    \/ vercmp_back
    \/ PlainVersion_call
    \/ PlainVersion_back
    \/ Srcinfo_block
    \/ Parse_line
    \/ from_parser_output_call
    \/ PlainVersion_chain

SpecCall == CallStart /\ [][CallNext]_vars

\* C11: a Git definition with a #key=value fragment, key one of branch,
\* commit and tag, and a ?signed query parses to protocol Git with that
\* fragment and signed = true, to a url without the git+ prefix, the
\* fragment and the query, and without an alias to the name of that url
\* less its trailing .git
C11_GitSigned ==
    LET definition == subject.definition
        source == outcome[1]
        body == IF definition[2] = ":" /\ definition[3] = ":"
                THEN SubSeq(definition, 4, Len(definition)) ELSE definition
        from == IF body[2] = "+" THEN 3 ELSE 1
        upto == CHOOSE i \in 1..Len(body) :
                    /\ body[i] \in {"#", "?"}
                    /\ \A j \in 1..(i - 1) : body[j] \notin {"#", "?"}
        key == body[find(body, <<"#">>) + 1]
        rest == SubSeq(body, find(body, <<"#">>) + 3, Len(body))
        value == IF find(rest, <<"?">>) = 0 THEN rest
                 ELSE SubSeq(rest, 1, find(rest, <<"?">>) - 1)
        slash == CHOOSE i \in 1..Len(source.url) :
                    /\ source.url[i] = "/"
                    /\ \A j \in (i + 1)..Len(source.url) : source.url[j] # "/"
        file == SubSeq(source.url, slash + 1, Len(source.url))
    IN  (/\ subject.fn = "Source"
         /\ Len(outcome) >= 1
         /\ body[1] = "git"
         /\ find(body, <<":", "/", "/">>) # 0
         /\ \E k \in {"branch", "commit", "tag"} :
               find(body, <<"#", k, "=">>) # 0
         /\ find(body, <<"?", "signed">>) # 0)
        => /\ source.protocol.variant = "Git"
           /\ source.protocol.fragment =
                  Some([variant |-> FragmentVariants.git[key],
                        value |-> value])
           /\ source.protocol.signed
           /\ source.url = SubSeq(body, from, upto - 1)
           /\ body = definition =>
                 source.name = IF file[Len(file)] = ".git"
                               THEN SubSeq(file, 1, Len(file) - 1) ELSE file

\* C12: for every source definition, parsing the projection of the parsed
\* source gives a source with the same name, url and protocol (variant,
\* fragment and signed flag)
C12_RoundTrip ==
    (subject.fn = "Source" /\ Len(outcome) = 3)
    => /\ outcome[3].name = outcome[1].name
       /\ outcome[3].url = outcome[1].url
       /\ outcome[3].protocol = outcome[1].protocol

\* C13: when the url of a definition holds ://, each scheme of file, ftp,
\* http, https, rsync, scp, bzr, fossil, git, hg and svn (the part before
\* a +, if any) gives the protocol variant of that name, every other
\* scheme gives Unknown, and parsing always returns a source
C13_SchemeVariant ==
    LET definition == subject.definition
        body == IF definition[2] = ":" /\ definition[3] = ":"
                THEN SubSeq(definition, 4, Len(definition)) ELSE definition
        Named == [file |-> "File", ftp |-> "Ftp", http |-> "Http",
                  https |-> "Https", rsync |-> "Rsync", scp |-> "Scp",
                  bzr |-> "Bzr", fossil |-> "Fossil", git |-> "Git",
                  hg |-> "Hg", svn |-> "Svn"]
    IN  (/\ subject.fn = "Source"
         /\ Len(outcome) >= 1
         /\ find(body, <<":", "/", "/">>) # 0)
        => /\ DOMAIN outcome[1] = {"name", "url", "protocol"}
           /\ outcome[1].protocol.variant =
                  IF body[1] \in DOMAIN Named THEN Named[body[1]]
                  ELSE "Unknown"

\* C14: a dependency text is cut at its first >= (GreaterOrEqual), else at
\* its first <= (LessOrEqual), else at its first = (Equal), else at its
\* first > (Greater), else at its first < (Less); without an operator the
\* whole text is the name and there is no version.  The version text gives
\* epoch (before its first :), pkgver, and pkgrel (after the last -)
C14_DependencyCut ==
    LET d == subject.definition
        operators ==
            <<[op |-> <<">", "=">>, order |-> "GreaterOrEqual"],
              [op |-> <<"<", "=">>, order |-> "LessOrEqual"],
              [op |-> <<"=">>, order |-> "Equal"],
              [op |-> <<">">>, order |-> "Greater"],
              [op |-> <<"<">>, order |-> "Less"]>>
        found == {i \in 1..5 : find(d, operators[i].op) # 0}
        first == CHOOSE i \in found : \A j \in found : i <= j
        at == find(d, operators[first].op)
        text == SubSeq(d, at + Len(operators[first].op), Len(d))
        colon == find(text, <<":">>)
        rest == SubSeq(text, colon + 1, Len(text))
        dashes == {i \in 1..Len(rest) : rest[i] = "-"}
        dash == CHOOSE i \in dashes : \A j \in dashes : j <= i
    IN  (subject.fn = "Dependency" /\ Len(outcome) = 1)
        => IF found = {}
           THEN outcome[1] = [name |-> d, version |-> None]
           ELSE /\ outcome[1].name = SubSeq(d, 1, at - 1)
                /\ outcome[1].version # None
                /\ outcome[1].version[1].order = operators[first].order
                /\ outcome[1].version[1].plain.epoch =
                       SubSeq(text, 1, colon - 1)
                /\ outcome[1].version[1].plain.pkgver =
                       IF dashes = {} THEN rest
                       ELSE SubSeq(rest, 1, dash - 1)
                /\ outcome[1].version[1].plain.pkgrel =
                       IF dashes = {} THEN <<>>
                       ELSE SubSeq(rest, dash + 1, Len(rest))

\* bar>=2 was parsed: name bar, GreaterOrEqual, pkgver 2
C14_Witness ==
    /\ subject.fn = "Dependency"
    /\ subject.definition = <<"bar", ">", "=", "2">>
    /\ outcome =
          <<[name |-> <<"bar">>,
             version |-> Some([order |-> "GreaterOrEqual",
                               plain |-> [epoch |-> <<>>,
                                          pkgver |-> <<"2">>,
                                          pkgrel |-> <<>>]])]>>

\* C15: vercmp(a, b) is the reverse of vercmp(b, a), Less against Greater
\* and Equal against Equal, and so is the ordering of two PlainVersion
\* values
C15_Antisymmetric ==
    LET Reverse == [Less |-> "Greater", Equal |-> "Equal", Greater |-> "Less"]
    IN  /\ (subject.fn = "vercmp" /\ Len(outcome) = 2)
           => /\ outcome[1] # None /\ outcome[2] # None
              /\ outcome[2][1] = Reverse[outcome[1][1]]
        /\ (subject.fn = "PlainVersion" /\ Len(outcome) = 2)
           => outcome[2] = Reverse[outcome[1]]

\* C16: of a < b, a = b and a > b exactly one holds for two PlainVersion
\* values, = being the equality of the three fields and < and > the
\* ordering; the ordering says Equal exactly when the fields are equal
C16_Trichotomy ==
    LET lt == outcome[1] = "Less"
        gt == outcome[1] = "Greater"
        eq == subject.self = subject.other
    IN  (subject.fn = "PlainVersion" /\ Len(outcome) >= 1)
        => /\ \/ lt /\ ~eq /\ ~gt
              \/ ~lt /\ eq /\ ~gt
              \/ ~lt /\ ~eq /\ gt
           /\ outcome[1] = "Equal" <=> eq

\* C17: two PlainVersion values are ordered by the first stage that tells
\* them apart: the epochs, an empty one read as 0; then the pkgvers; then
\* the pkgrels, compared only when both are non-empty, Equal otherwise.  A
\* version with the greater epoch is Greater whatever the other fields
C17_Staged ==
    LET a == subject.self
        b == subject.other
        Number == [e \in {<<>>, <<"1">>, <<"2">>} |->
                      IF e = <<>> THEN 0 ELSE IF e = <<"1">> THEN 1 ELSE 2]
        pkgvers == vercmp(a.pkgver, b.pkgver)[1]
        pkgrels == vercmp(a.pkgrel, b.pkgrel)[1]
    IN  (subject.fn = "PlainVersion" /\ Len(outcome) >= 1)
        => outcome[1] =
              IF Number[a.epoch] > Number[b.epoch] THEN "Greater"
              ELSE IF Number[a.epoch] < Number[b.epoch] THEN "Less"
              ELSE IF pkgvers # "Equal" THEN pkgvers
              ELSE IF a.pkgrel # <<>> /\ b.pkgrel # <<>> THEN pkgrels
              ELSE "Equal"

\* 2:1.0-1 was compared with 1:9.9-9 and is Greater
C17_Witness ==
    /\ subject.fn = "PlainVersion"
    /\ subject.self = [epoch |-> <<"2">>, pkgver |-> <<"1", ".", "0">>,
                       pkgrel |-> <<"1">>]
    /\ subject.other = [epoch |-> <<"1">>, pkgver |-> <<"9", ".", "9">>,
                        pkgrel |-> <<"9">>]
    /\ outcome = <<"Greater">>

\* C18: vercmp agrees with the reference comparator: both texts are cut
\* into segments at every byte that is no letter and no digit, the
\* segments are compared pair by pair, and inside a pair the runs of
\* digits or of letters, one against one: two digit runs by their length
\* without leading zeros and then byte by byte, two letter runs byte by
\* byte, a digit run above a letter run; the side that has nothing left
\* first is Less
C18_Reference ==
    LET digit(c) == c \in {"0", "1", "2", "9"}
        alnum(c) == c \in {"0", "1", "2", "9", "a", "b"}
        \* the texts between the bytes that are no letter and no digit
        RECURSIVE Segments(_)
        Segments(s) ==
            IF \A i \in 1..Len(s) : alnum(s[i]) THEN <<s>>
            ELSE LET cut == CHOOSE i \in 1..Len(s) :
                                /\ ~alnum(s[i])
                                /\ \A j \in 1..(i - 1) : alnum(s[j])
                 IN  <<SubSeq(s, 1, cut - 1)>>
                         \o Segments(SubSeq(s, cut + 1, Len(s)))
        \* the maximal runs of digits and of letters of a segment
        RECURSIVE SubRuns(_)
        SubRuns(seg) ==
            IF seg = <<>> THEN <<>>
            ELSE LET end == CHOOSE i \in 1..Len(seg) :
                                /\ \A j \in 1..i : digit(seg[j]) = digit(seg[1])
                                /\ i < Len(seg) =>
                                      digit(seg[i + 1]) # digit(seg[1])
                 IN  <<SubSeq(seg, 1, end)>>
                         \o SubRuns(SubSeq(seg, end + 1, Len(seg)))
        Stripped(run) ==
            IF \A i \in 1..Len(run) : run[i] = "0" THEN <<>>
            ELSE SubSeq(run,
                        CHOOSE i \in 1..Len(run) :
                            /\ run[i] # "0"
                            /\ \A j \in 1..(i - 1) : run[j] = "0",
                        Len(run))
        Lexical(s, t) ==
            IF s = t THEN "Equal"
            ELSE IF \E i \in 1..Len(s) :
                       /\ \A j \in 1..(i - 1) : j <= Len(t) /\ s[j] = t[j]
                       /\ i > Len(t) \/ Bytes[s[i]] > Bytes[t[i]]
            THEN "Greater" ELSE "Less"
        RunOrder(r, q) ==
            IF digit(r[1]) /\ ~digit(q[1]) THEN "Greater"
            ELSE IF ~digit(r[1]) /\ digit(q[1]) THEN "Less"
            ELSE IF ~digit(r[1]) THEN Lexical(r, q)
            ELSE IF Len(Stripped(r)) > Len(Stripped(q)) THEN "Greater"
            ELSE IF Len(Stripped(r)) < Len(Stripped(q)) THEN "Less"
            ELSE Lexical(Stripped(r), Stripped(q))
        \* the first pair of runs that is not Equal decides; the side with
        \* nothing left is Less
        RECURSIVE SegmentOrder(_, _, _)
        SegmentOrder(rs, qs, i) ==
            IF i > Len(rs) THEN IF i > Len(qs) THEN "Equal" ELSE "Less"
            ELSE IF i > Len(qs) THEN "Greater"
            ELSE IF RunOrder(rs[i], qs[i]) # "Equal"
            THEN RunOrder(rs[i], qs[i])
            ELSE SegmentOrder(rs, qs, i + 1)
        \* the first pair of segments that is not Equal decides; the side
        \* with nothing left is Less
        RECURSIVE Reference(_, _, _)
        Reference(xs, ys, i) ==
            IF i > Len(xs) THEN IF i > Len(ys) THEN "Equal" ELSE "Less"
            ELSE IF i > Len(ys) THEN "Greater"
            ELSE IF SegmentOrder(SubRuns(xs[i]), SubRuns(ys[i]), 1) # "Equal"
            THEN SegmentOrder(SubRuns(xs[i]), SubRuns(ys[i]), 1)
            ELSE Reference(xs, ys, i + 1)
    IN  (subject.fn = "vercmp" /\ Len(outcome) >= 1)
        => outcome[1] = Some(Reference(Segments(subject.ver1),
                                       Segments(subject.ver2), 1))

\* C19: a source block of the SRCINFO projection with at least one source
\* has, for at least one checksum family, a checksum line per source; when
\* no source of the block has any of the eight checksums the family is
\* sha256sums and the value SKIP; when only cksum values are there the
\* block still has a checksum line per source
C19_ChecksumLines ==
    LET swc == subject.block.sources_with_checksums
        suffix == IF subject.arch_name = <<>> THEN <<>>
                  ELSE <<"_">> \o subject.arch_name
        lines == outcome[1]
        Of(family) == {i \in 1..Len(lines) :
                          lines[i].title =
                              <<ChecksumFamilies[family], "s">> \o suffix}
        bare == \A i \in 1..Len(swc) :
                    \A family \in DOMAIN ChecksumFamilies :
                        swc[i][ChecksumFamilies[family]] = None
    IN  (subject.fn = "Srcinfo" /\ Len(outcome) = 1 /\ Len(swc) >= 1)
        => /\ \E family \in DOMAIN ChecksumFamilies :
                 Cardinality(Of(family)) = Len(swc)
           /\ bare =>
                 /\ Cardinality(Of("sha256sums")) = Len(swc)
                 /\ \A i \in Of("sha256sums") : lines[i].content = <<"SKIP">>

\* C20: the stream parser changes its state by these steps only: None to
\* Pkgbuild on PKGBUILD; Pkgbuild to Package on PACKAGE; Package to
\* PackageArchSpecific on PACKAGEARCH; PackageArchSpecific to Package on
\* END, the architecture data appended to the package; Package to Pkgbuild
\* on END, the package appended to pkgs; Pkgbuild to PkgbuildArchSpecific
\* on ARCH; PkgbuildArchSpecific to Pkgbuild on END; Pkgbuild to None on
\* END, the record appended to the result.  An accepted key:value line
\* leaves the state where it is, and its value is all that follows the
\* first colon
C20_Transitions ==
    LET Steps ==
            {<<"None", <<"PKGBUILD">>, "Pkgbuild">>,
             <<"Pkgbuild", <<"PACKAGE">>, "Package">>,
             <<"Package", <<"PACKAGEARCH">>, "PackageArchSpecific">>,
             <<"PackageArchSpecific", <<"END">>, "Package">>,
             <<"Package", <<"END">>, "Pkgbuild">>,
             <<"Pkgbuild", <<"ARCH">>, "PkgbuildArchSpecific">>,
             <<"PkgbuildArchSpecific", <<"END">>, "Pkgbuild">>,
             <<"Pkgbuild", <<"END">>, "None">>}
        Before(i) == IF i = 1 THEN ParsingStateNone ELSE outcome[i - 1]
        line(i) == subject.output[i]
        AfterColon(i) == SubSeq(line(i), 3, Len(line(i)))
        Last(s) == s[Len(s)]
        \* the frame a key:value line is stored in
        Stored(st) ==
            CASE st.kind = "Pkgbuild" -> st.pkgbuild
              [] st.kind = "Package" -> st.package
              [] st.kind = "PackageArchSpecific" -> st.pkgarch
              [] st.kind = "PkgbuildArchSpecific" -> st.arch
    IN  subject.fn = "from_parser_output"
        => \A i \in 1..Len(outcome) :
              \* a step of the table is taken whenever its line comes
              /\ \A step \in Steps :
                    (Before(i).kind = step[1] /\ line(i) = step[2])
                    => outcome[i].error = NoError /\ outcome[i].kind = step[3]
              /\ outcome[i].error = NoError =>
                    /\ outcome[i].kind # Before(i).kind
                       => <<Before(i).kind, line(i), outcome[i].kind>> \in Steps
                    /\ (Before(i).kind = "PackageArchSpecific"
                        /\ line(i) = <<"END">>)
                       => outcome[i].package.arches =
                              Append(Before(i).package.arches,
                                     Before(i).pkgarch)
                    /\ (Before(i).kind = "Package" /\ line(i) = <<"END">>)
                       => outcome[i].pkgbuild.pkgs =
                              Append(Before(i).pkgbuild.pkgs,
                                     Before(i).package)
                    /\ (Before(i).kind = "PkgbuildArchSpecific"
                        /\ line(i) = <<"END">>)
                       => outcome[i].pkgbuild.arches =
                              Append(Before(i).pkgbuild.arches,
                                     Before(i).arch)
                    /\ (Before(i).kind = "Pkgbuild" /\ line(i) = <<"END">>)
                       => outcome[i].pkgbuilds =
                              Append(Before(i).pkgbuilds,
                                     Before(i).pkgbuild)
                    /\ (Len(line(i)) > 1 /\ line(i)[2] = ":")
                       => /\ outcome[i].kind = Before(i).kind
                          /\ line(i)[1] = "url"
                             => Stored(outcome[i]).url = AfterColon(i)
                          /\ line(i)[1] = "depends"
                             => Last(Stored(outcome[i]).depends)
                                    = AfterColon(i)
                          /\ line(i)[1] = "arch"
                             => Stored(outcome[i]).arch = AfterColon(i)

\* a recipe frame with a url holding a colon and a split package with one
\* architecture sub-frame was read up to the END of the sub-frame
C20_Witness ==
    /\ subject.fn = "from_parser_output"
    /\ subject.output =
          << <<"PKGBUILD">>, <<"url", ":", "h", ":", "x">>, <<"PACKAGE">>,
             <<"END">> >>
    /\ Len(outcome) = 4
    /\ outcome[2].kind = "Pkgbuild"
    /\ outcome[2].pkgbuild.url = <<"h", ":", "x">>
    /\ outcome[3].kind = "Package"
    /\ outcome[4].kind = "Pkgbuild"
    /\ Len(outcome[4].pkgbuild.pkgs) = 1

\* C21: when the output is used up the parser accepts two states only:
\* None, where the records closed so far are returned, and Pkgbuild, where
\* the open record is closed and returned as the last one; an output that
\* ends in Package, PackageArchSpecific or PkgbuildArchSpecific returns
\* ParserScriptIllegalOutput and no records
C21_EndOfStream ==
    (subject.fn = "PkgbuildsParsing" /\ outcome # <<>>)
    => LET output == subject.head \o <<subject.probe>> \o subject.tail
           last == ParseLines(ParsingStateNone, output)
       IN  last.error = NoError
           => CASE last.kind = "None" ->
                     /\ outcome[1].ok
                     /\ outcome[1].value = last.pkgbuilds
                [] last.kind = "Pkgbuild" ->
                     /\ outcome[1].ok
                     /\ Len(outcome[1].value) = Len(last.pkgbuilds) + 1
                     /\ SubSeq(outcome[1].value, 1, Len(last.pkgbuilds))
                            = last.pkgbuilds
                     /\ outcome[1].value[Len(outcome[1].value)]
                            = last.pkgbuild
                [] OTHER ->
                     /\ ~outcome[1].ok
                     /\ outcome[1].error.kind = "ParserScriptIllegalOutput"
                     /\ outcome[1].value = <<>>

\* a closed record is followed by a second PKGBUILD frame that is never
\* closed: two records are returned, the open one last
C21_Witness ==
    /\ subject.fn = "PkgbuildsParsing"
    /\ subject.head = << <<"PKGBUILD">>, <<"pkgbase", ":", "a">>, <<"END">> >>
    /\ subject.probe = <<"PKGBUILD">>
    /\ subject.tail = <<>>
    /\ outcome # <<>>
    /\ outcome[1].ok
    /\ Len(outcome[1].value) = 2
    /\ outcome[1].value[1].pkgbase = <<"a">>
    /\ outcome[1].value[2] = PkgbuildParsingDefault

C23_EmptyValueSkipped ==
    (/\ subject.fn = "PkgbuildsParsing"
     /\ outcome # <<>>
     /\ Len(subject.probe) = 2
     /\ subject.probe[2] = ":"
     /\ ParseLines(ParsingStateNone,
                   subject.head \o << <<subject.probe[1], ":", "v">> >>).error
           = NoError)
    => outcome[1] = from_parser_output(subject.head \o subject.tail)

\* C24: in state Pkgbuild every key the harness dumps for a recipe is
\* accepted: pkgbase, pkgver, pkgrel, epoch, pkgdesc, url, install and
\* changelog set the scalar of that name; license, validpgpkeys, noextract,
\* groups, backup and options append to the list of that name
C24_PkgbuildKeys ==
    LET Scalars == {"pkgbase", "pkgver", "pkgrel", "epoch", "pkgdesc", "url",
                    "install", "changelog"}
        Lists == {"license", "validpgpkeys", "noextract", "groups", "backup",
                  "options"}
        \* the field of PkgbuildParsing that holds the list
        Field(k) == CASE k = "validpgpkeys" -> "validgpgkeys"
                      [] k = "backup" -> "backups"
                      [] OTHER -> k
        before == ParseLines(ParsingStateNone, subject.head)
        key == subject.probe[1]
        Last(s) == s[Len(s)]
    IN  (/\ subject.fn = "PkgbuildsParsing"
         /\ outcome # <<>>
         /\ before.kind = "Pkgbuild"
         /\ subject.tail = <<>>
         /\ Len(subject.probe) = 3
         /\ key \in Scalars \cup Lists)
        => /\ outcome[1].ok
           /\ key \in Scalars
              => Last(outcome[1].value)[key] = <<"v">>
           /\ key \in Lists
              => Last(outcome[1].value)[Field(key)]
                    = Append(before.pkgbuild[Field(key)], <<"v">>)

\* C27: a child that parse_multi spawned has been waited for when
\* parse_multi returns, on every path: success, bad exit status, failure
\* of the pump, failure to take a handle of the child, failure of the kill
C27_ChildReaped ==
    (pc = "done" /\ "spawn" \in Range(ops)) => child = "reaped"

\* C30: the order of PlainVersion values is transitive: a <= b and b <= c
\* give a <= c, and a = b and b = c in the order give a = c in the order,
\* also when some of the three have an empty pkgrel or an empty epoch
C30_Transitive ==
    (subject.fn = "Ord" /\ outcome # <<>>)
    => /\ (outcome[1] \in {"Less", "Equal"} /\ outcome[2] \in {"Less", "Equal"})
          => outcome[3] \in {"Less", "Equal"}
       /\ (outcome[1] = "Equal" /\ outcome[2] = "Equal")
          => outcome[3] = "Equal"

C26_Threaded ==
    (policy = "thread" /\ work_pc = "returned")
    => /\ stdin_writer \in {"ok", "err", "panicked"}
       /\ stderr_reader \in {"ok", "err", "panicked"}
       /\ last_error = NoError
          => stdin_writer = "ok" /\ stderr_reader = "ok"
       /\ (stdin_writer = "ok" /\ stderr_reader = "ok")
          => last_error \in {NoError, IoError("stdout")}
       /\ (stdin_writer = "panicked" \/ stderr_reader = "panicked")
          => last_error = Error("ThreadUnjoinable")

\* C28: for a child that exits with a status other than 0 before it has
\* read all of its stdin, parse_multi returns ChildBadReturn with the code
\* of that status, however the steps of the pump and of the child fall,
\* under both policies (no other transfer fails, and the kill and the wait
\* succeed)
C28_BadReturnAlways ==
    (/\ pc = "done"
     /\ peer.at = "exited"
     /\ peer.status.exited
     /\ peer.status.arg # 0
     /\ written - pipes.stdin < total
     /\ last_error \in {NoError, IoError("stdin")}
     /\ "kill_failed" \notin Range(ops)
     /\ "wait_failed" \notin Range(ops))
    => result = Err(ChildBadReturn(status_code(peer.status)))

\* C29: under either policy a pump whose transfers all succeeded returns
\* in its stdout vector exactly the blocks the child printed to stdout, in
\* order, and in its stderr vector exactly those printed to stderr, however
\* the reads were cut and interleaved; so both policies return the same
\* pair for the same child
C29_SameBuffers ==
    (work_pc = "returned" /\ last_error = NoError)
    => /\ stdout = [k \in 1..peer.printed.stdout |-> Block("stdout", k)]
       /\ stderr = [k \in 1..peer.printed.stderr |-> Block("stderr", k)]

\* the single-thread pump has returned Ok and its scratch buffer still
\* holds a block of stdout behind a block of stderr: both streams went
\* through it, in reads of different lengths
C29_Witness ==
    /\ policy = "nothread"
    /\ work_pc = "returned"
    /\ last_error = NoError
    /\ Len(stdout) >= 2
    /\ Len(stderr) >= 1
    /\ buffer[1][1] = "stderr"
    /\ buffer[2][1] = "stdout"

====
